---------------------------- MODULE Spec2Model ----------------------------
(***************************************************************************)
(* Model of scripts/process_data.py: the batch pipeline that normalizes    *)
(* the person, flight and relationship sources, merges the two person      *)
(* sources, counts connections and assembles the bounded network graph.    *)
(*                                                                         *)
(* Python values are modelled as follows.                                  *)
(*   - a list is a sequence; a dict whose iteration order matters (nodes,  *)
(*     the pair Counter) is a sequence of entries in insertion order;      *)
(*   - a dict record (a CSV row, a person, a node, a link) is a TLA+       *)
(*     record whose DOMAIN is the set of keys that are present;            *)
(*   - "None or a list" is a record [present, rows]; None is               *)
(*     [present |-> FALSE, rows |-> <<>>];                                 *)
(*   - strings are strings; str.strip, str.lower, str.title and int() are  *)
(*     tables over the strings the inputs are drawn from.                  *)
(* A Python for-loop is a left-to-right fold; folds are written by binary  *)
(* splitting of the index range so that long inputs (more than 1000 edges) *)
(* are evaluated with shallow recursion, the order of the iterations being *)
(* the loop's order; the test "left = acc" only makes the first half be    *)
(* evaluated before the second half starts.                                *)
(***************************************************************************)
EXTENDS Integers, Sequences, FiniteSets, TLC

VARIABLES
    profile,             \* which family of input files this run reads
    sources,             \* the input files under data/
    pc,                  \* position in main()
    run,                 \* 1 in the first run of the script, 2 in the second
    image_index,         \* load_image_index()
    entities_data,       \* process_entities()
    kaggle_data,         \* process_persons_kaggle(); mutated by merge_persons
    kaggle_before,       \* kaggle_data as it was when merge_persons was called
    flight_data,         \* process_flights()
    relationships_data,  \* process_relationships()
    document_data,       \* process_documents()
    email_data,          \* process_emails()
    connection_counts,   \* count_connections_from_relationships()
    persons_data,        \* merge_persons()
    network_data,        \* build_network()
    summary_data,        \* generate_summary()
    written,             \* the files under dashboard/data, by name
    first_written,       \* the files as the first run left them
    docs_dir,            \* names of the files in data/images/documents
    state_file,          \* data/processed/analysis_state.json
    results_csv,         \* the file_name column of evidence_analysis.csv
    apc,                 \* position in main() of analyze_documents.py
    runs,                \* runs of analyze_documents.py started so far
    processed_files,     \* main() of analyze_documents.py: processed_files
    to_process,          \* to_process
    loop_i,              \* iterations of the loop started: i + 1
    current_batch,       \* file names of the results in current_batch
    requests,            \* images sent to generate_content in this run
    exit_log,            \* the last message of the run that ended
    rate_limited         \* the last pass of the loop logged "Rate limit hit"

\* The variables of one run of main().
locals == <<image_index, entities_data, kaggle_data, kaggle_before, flight_data,
            relationships_data, document_data, email_data, connection_counts,
            persons_data, network_data, summary_data>>

\* The files and the variables of analyze_documents.py.
analysis == <<docs_dir, state_file, results_csv, apc, runs, processed_files,
              to_process, loop_i, current_batch, requests, exit_log, rate_limited>>

vars == <<profile, sources, pc, run, locals, written, first_written, analysis>>

---------------------------------------------------------------------------
(* Bounds of the input families.                                           *)

MaxEntityRows == 2
MaxKaggleRows == 2
MaxRelRows == 3
MaxFlightRows == 2
MaxPax == 3
MaxDocLines == 2
\* The long inputs exceed a cap of the program by up to CapSlack.
CapSlack == 1
\* Passengers of the long flight: BigPax * (BigPax - 1) / 2 pairs, above 500.
BigPax == 33

(* Program constants.                                                      *)
PersonNodeCap == 300
RelLinkCap == 1000
CoOccurrenceCap == 500

---------------------------------------------------------------------------
(* Strings.                                                                *)

\* Generated names: "n<i>" is all lower case, "N<i>" is its title case.
GenCount == PersonNodeCap + CapSlack + 8
GenLower(i) == "n" \o ToString(i)
GenTitle(i) == "N" \o ToString(i)

\* str.strip(): every string of the inputs that has surrounding white space.
StripTable ==
    (" Ann " :> "Ann") @@ ("  " :> "") @@ (" " :> "") @@ (" bob" :> "bob")
    @@ (" FBI " :> "FBI")

Strip(s) == IF s \in DOMAIN StripTable THEN StripTable[s] ELSE s

\* str.lower(): every string of the inputs that is not already lower case.
LowerTable ==
    ("Ann" :> "ann") @@ ("ANN" :> "ann") @@ ("Bob" :> "bob") @@ ("Cy" :> "cy")
    @@ ("Dee" :> "dee") @@ ("Eve" :> "eve") @@ ("Dee Eve" :> "dee eve")
    @@ ("Cy Eve" :> "cy eve") @@ ("Cy Cy" :> "cy cy") @@ ("Yes" :> "yes")
    @@ [s \in {GenTitle(i) : i \in 1..GenCount} |->
            GenLower(CHOOSE i \in 1..GenCount : GenTitle(i) = s)]

Lower(s) == IF s \in DOMAIN LowerTable THEN LowerTable[s] ELSE s

\* str.title(): every string of the inputs that is not already title case.
TitleTable ==
    ("ann" :> "Ann") @@ ("ANN" :> "Ann") @@ ("bob" :> "Bob") @@ ("cy" :> "Cy")
    @@ ("dee" :> "Dee") @@ ("eve" :> "Eve") @@ ("dee eve" :> "Dee Eve")
    @@ [s \in {GenLower(i) : i \in 1..GenCount} |->
            GenTitle(CHOOSE i \in 1..GenCount : GenLower(i) = s)]

Title(s) == IF s \in DOMAIN TitleTable THEN TitleTable[s] ELSE s

\* len(s) > 2 for the passenger tokens: the tokens of at most two characters.
ShortStrings == {"", "Cy", "cy"}

\* int(s): the strings int() accepts, with their values; any other raises.
IntTable ==
    ("0" :> 0) @@ ("1" :> 1) @@ ("2" :> 2) @@ ("3" :> 3) @@ ("-1" :> -1)
    @@ (" 2" :> 2)

\* float(s) then int(round(.)) for the strings float() accepts and int() not.
RoundTable == ("0.4" :> 0) @@ ("1.5" :> 2) @@ ("2.5" :> 2)

---------------------------------------------------------------------------
(* Python helpers.                                                         *)

\* dict.get(key, default)
Get(rec, key, default) == IF key \in DOMAIN rec THEN rec[key] ELSE default

\* "x or y" for x a string: the empty string is falsy.
OrStr(x, y) == IF x = "" THEN y ELSE x

None == [present |-> FALSE, rows |-> <<>>]
Some(rows) == [present |-> TRUE, rows |-> rows]

\* bool(x) for x None or a list.
Truthy(data) == data.present /\ data.rows # <<>>

Max(a, b) == IF a >= b THEN a ELSE b
Min(a, b) == IF a <= b THEN a ELSE b

\* seq[:n]
Take(seq, n) == SubSeq(seq, 1, Min(n, Len(seq)))

\* Tuple comparison a > b of two key tuples of one length.
TupleGt(a, b) ==
    \E i \in 1..Len(a) : a[i] > b[i] /\ \A j \in 1..(i - 1) : a[j] = b[j]

\* list.sort(key=..., reverse=...): a stable sort, elements with equal keys
\* keep their order.  keys[i] is the key tuple of seq[i].
StableSort(seq, keys, reverse) ==
    LET s == seq \o <<>>
        k == keys \o <<>>
        n == Len(s)
        Before(j, i) == IF reverse THEN TupleGt(k[j], k[i]) ELSE TupleGt(k[i], k[j])
        precedes(j, i) ==
            \/ Before(j, i)
            \/ /\ ~Before(i, j)
               /\ j < i
        \* <<place of s[i] in the result, i>>
        places == {<<1 + Cardinality({j \in 1..n : precedes(j, i)}), i>> : i \in 1..n}
    IN  [m \in 1..n |-> s[(CHOOSE p \in places : p[1] = m)[2]]] \o <<>>

\* int(x or default) inside try/except (ValueError, TypeError): on failure the
\* variable keeps the value it was initialised with.
IntOr(raw, default, initial) ==
    IF raw = "" THEN default
    ELSE IF raw \in DOMAIN IntTable THEN IntTable[raw]
    ELSE initial

---------------------------------------------------------------------------
(* process_relationships                                                   *)

\* lines 351-359: int(), else int(round(float())), else 1.
ParseStrength(record) ==
    LET raw == Get(record, "strength", "") IN
    IF raw = "" THEN 1
    ELSE IF raw \in DOMAIN IntTable THEN IntTable[raw]
    ELSE IF raw \in DOMAIN RoundTable THEN RoundTable[raw]
    ELSE 1

RelLink(record) ==
    [source |-> Strip(Get(record, "entity_a", "")),
     target |-> Strip(Get(record, "entity_b", "")),
     type   |-> Strip(Get(record, "relationship_type", "")),
     weight |-> ParseStrength(record)]

RelKeep(link) == link.source # "" /\ link.target # ""

\* file: None when relationships.csv does not exist, else its rows.
\* Returns None or the tuple (links, node_set).
process_relationships(file) ==
    IF ~file.present
    THEN [present |-> FALSE, links |-> <<>>, nodes |-> {}]
    ELSE LET all == [i \in 1..Len(file.rows) |-> RelLink(file.rows[i])]
             links == SelectSeq(all, RelKeep)
         IN  [present |-> TRUE,
              links   |-> links,
              nodes   |-> {links[i].source : i \in 1..Len(links)}
                          \cup {links[i].target : i \in 1..Len(links)}]

---------------------------------------------------------------------------
(* count_connections_from_relationships                                    *)

\* Counter: c[k] += 1
Inc(c, k) == IF k \in DOMAIN c THEN [c EXCEPT ![k] = @ + 1] ELSE c @@ (k :> 1)

\* Counter.get(k, 0)
CountOf(c, k) == IF k \in DOMAIN c THEN c[k] ELSE 0

EmptyCounter == [k \in {} |-> 0]


\* A loop body that counts the source endpoint only.
CountStep_SourceOnly(c, link) == Inc(c, link.source)

\* lines 198-201: the body of the loop.
CountStep(c, link) == Inc(Inc(c, link.source), link.target)

RECURSIVE CountLoop(_, _, _, _)
CountLoop(links, lo, hi, c) ==
    IF lo > hi THEN c
    ELSE IF lo = hi THEN CountStep(c, links[lo])
    ELSE LET mid == (lo + hi) \div 2
             left == CountLoop(links, lo, mid, c)
         IN  IF left = c THEN CountLoop(links, mid + 1, hi, c)
             ELSE CountLoop(links, mid + 1, hi, left)

count_connections_from_relationships(rel) ==
    IF ~rel.present THEN EmptyCounter
    ELSE CountLoop(rel.links, 1, Len(rel.links), EmptyCounter)

---------------------------------------------------------------------------
(* Image index lookup (process_entities lines 97-105, kaggle 170-172)      *)

\* str.split(): the names of the inputs that have more than one token.
SplitTable ==
    ("Dee Eve" :> <<"Dee", "Eve">>) @@ ("Cy Eve" :> <<"Cy", "Eve">>)
    @@ ("Cy Cy" :> <<"Cy", "Cy">>)

Split(s) ==
    IF s \in DOMAIN SplitTable THEN SplitTable[s]
    ELSE IF s = "" THEN <<>> ELSE <<s>>

\* "part in key" for strings: the proper substrings among the inputs.
SubstringPairs ==
    {<<"Dee", "Dee Eve">>, <<"Eve", "Dee Eve">>, <<"Eve", "Cy Eve">>,
     <<"Cy", "Cy Eve">>, <<"Cy", "Cy Cy">>, <<"Dee", "Dee A. Eve">>,
     <<"Eve", "Dee A. Eve">>, <<"Eve", "Eve">>, <<"Dee", "Deedee">>}

Contains(key, part) == part = "" \/ part = key \/ <<part, key>> \in SubstringPairs

\* The index is a dict in insertion order: a sequence of [key, images].
IndexGet(index, name) ==
    LET hits == {i \in 1..Len(index) : index[i].key = name}
    IN  IF hits = {} THEN <<>> ELSE index[CHOOSE i \in hits : TRUE].images

\* The fallback condition without the test on the number of tokens.
FuzzyMatch_AnyLength(name_title, key) ==
    LET name_parts == Split(name_title)
        first_two == Take(name_parts, 2)
    IN  \A i \in 1..Len(first_two) :
            first_two[i] \notin ShortStrings => Contains(key, first_two[i])

\* line 103: the condition under which a key is taken by the fallback.
FuzzyMatch(name_title, key) ==
    LET name_parts == Split(name_title)
        first_two == Take(name_parts, 2)
    IN  /\ Len(name_parts) >= 2
        /\ \A i \in 1..Len(first_two) :
              first_two[i] \notin ShortStrings => Contains(key, first_two[i])

\* lines 98-105
MatchImages(index, name) ==
    LET name_title == Title(name)
        images == IndexGet(index, name_title)
        fuzzy == {i \in 1..Len(index) : FuzzyMatch(name_title, index[i].key)}
    IN  IF images # <<>> THEN images
        ELSE IF fuzzy = {} THEN images
        ELSE index[CHOOSE i \in fuzzy : \A j \in fuzzy : i <= j].images

---------------------------------------------------------------------------
(* process_entities                                                        *)

EntityName(record) == Strip(Get(record, "name", ""))

EntityKeep(record) == EntityName(record) # ""

\* lines 78-116
EntityEntry(record, index) ==
    [name             |-> EntityName(record),
     entity_type      |-> Strip(Get(record, "entity_type", "")),
     role_description |-> Strip(Get(record, "role_description", "")),
     documents        |-> IntOr(Get(record, "document_count", ""), 0, 0),
     flights          |-> IntOr(Get(record, "flight_count", ""), 0, 0),
     emails           |-> IntOr(Get(record, "email_count", ""), 0, 0),
     slug             |-> Strip(Get(record, "slug", "")),
     images           |-> MatchImages(index, EntityName(record))]

\* line 119: key (flights, documents), reverse.
EntityKey(e) == <<e.flights, e.documents>>

process_entities(file, index) ==
    IF ~file.present THEN None
    ELSE LET kept == SelectSeq(file.rows, EntityKeep)
             processed == [i \in 1..Len(kept) |-> EntityEntry(kept[i], index)]
         IN  Some(StableSort(processed, [i \in 1..Len(processed) |-> EntityKey(processed[i])], TRUE))

---------------------------------------------------------------------------
(* process_persons_kaggle                                                  *)

KaggleName(record) ==
    Strip(OrStr(Get(record, "Name", ""), Get(record, "Persons of Interest", "")))

KaggleKeep(record) == KaggleName(record) # ""

\* record.get(first, record.get(second, 0)): the second column is read only
\* when the first is absent from the row.
GetChain(record, first, second) ==
    IF first \in DOMAIN record THEN record[first] ELSE Get(record, second, "")

BlackBookYes == {"yes", "true", "1", "y"}

\* lines 147-184
KaggleEntry(record, index) ==
    [name          |-> KaggleName(record),
     bio           |-> Strip(Get(record, "Bio", "")),
     flights       |-> IntOr(GetChain(record, "Flights", "Number of flights"), 0, 0),
     documents     |-> IntOr(GetChain(record, "Documents", "Number of documents"), 0, 0),
     connections   |-> IntOr(Get(record, "Connections", ""), 0, 0),
     in_black_book |-> Lower(Strip(Get(record, "In Black Book", ""))) \in BlackBookYes,
     nationality   |-> OrStr(Strip(Get(record, "Nationality", "")), "Unknown"),
     category      |-> OrStr(Strip(Get(record, "Category", "")), "Unknown"),
     images        |-> IndexGet(index, Title(KaggleName(record)))]

\* line 186: key (connections, flights, documents), reverse.
KaggleKey(p) == <<p.connections, p.flights, p.documents>>

process_persons_kaggle(file, index) ==
    IF ~file.present THEN None
    ELSE LET kept == SelectSeq(file.rows, KaggleKeep)
             processed == [i \in 1..Len(kept) |-> KaggleEntry(kept[i], index)]
         IN  Some(StableSort(processed, [i \in 1..Len(processed) |-> KaggleKey(processed[i])], TRUE))

---------------------------------------------------------------------------
(* merge_persons                                                           *)

\* lines 213 and 266: p["connections"] = max(p.get("connections", 0), C.get(name, 0))
RaiseConnections(p, C) ==
    [p EXCEPT !.connections = Max(Get(p, "connections", 0), CountOf(C, p.name))]

\* lines 221-234: an entity in persons format, no supplementary source.
EntityAsPerson(e, C) ==
    [name             |-> e.name,
     entity_type      |-> Get(e, "entity_type", ""),
     role_description |-> Get(e, "role_description", ""),
     flights          |-> Get(e, "flights", 0),
     documents        |-> Get(e, "documents", 0),
     emails           |-> Get(e, "emails", 0),
     connections      |-> CountOf(C, e.name),
     in_black_book    |-> FALSE,
     nationality      |-> "Unknown",
     category         |-> Get(e, "entity_type", "Unknown"),
     slug             |-> Get(e, "slug", ""),
     images           |-> Get(e, "images", <<>>)]

\* line 238: {p["name"].lower(): p for p in kaggle_data}, then .get(key, {}):
\* of several records with the same key the last one stays in the dict.
KaggleMatch(S, name_lower) ==
    LET hits == {i \in 1..Len(S) : Lower(S[i].name) = name_lower}
    IN  IF hits = {} THEN <<>>
        ELSE S[CHOOSE i \in hits : \A j \in hits : j <= i]


\* The primary value alone, and the smaller of the two values.
MergedCount_Primary(e, k, field) == Get(e, field, 0)
MergedCount_Min(e, k, field) == Min(Get(e, field, 0), Get(k, field, 0))

\* line 252-253: max of the two sources' values.
MergedCount(e, k, field) == Max(Get(e, field, 0), Get(k, field, 0))


\* The relationship count alone.
MergedConnections_CountOnly(e, k, C) == CountOf(C, e.name)

\* line 246
MergedConnections(e, k, C) == Max(CountOf(C, e.name), Get(k, "connections", 0))

\* The images of the supplementary record, whatever the primary one has.
MergedImages_Supplementary(e, k) == Get(k, "images", <<>>)

\* line 260: e.get("images", []) or kaggle_match.get("images", [])
MergedImages(e, k) ==
    IF Get(e, "images", <<>>) # <<>> THEN e.images ELSE Get(k, "images", <<>>)

\* lines 248-261: k is kaggle_match, the empty dict when there is none.
MergedEntry(e, k, C) ==
    [name             |-> e.name,
     entity_type      |-> Get(e, "entity_type", ""),
     role_description |-> Get(e, "role_description", ""),
     flights          |-> MergedCount(e, k, "flights"),
     documents        |-> MergedCount(e, k, "documents"),
     emails           |-> Get(e, "emails", 0),
     connections      |-> MergedConnections(e, k, C),
     in_black_book    |-> Get(k, "in_black_book", FALSE),
     nationality      |-> Get(k, "nationality", "Unknown"),
     category         |-> Get(k, "category", Get(e, "entity_type", "Unknown")),
     slug             |-> Get(e, "slug", ""),
     images           |-> MergedImages(e, k)]


\* Every supplementary record is appended, matched or not.
KaggleOnly_All(p, seen) == TRUE

\* line 265: the supplementary records appended after the primary ones.
KaggleOnly(p, seen) == Lower(p.name) \notin seen

\* line 269: key (flights, documents), reverse.
MergedKey(p) == <<Get(p, "flights", 0), Get(p, "documents", 0)>>

\* An ascending sort that is reversed: equal keys end in reverse order.
MergedOrder_Reversed(merged) ==
    LET up == StableSort(merged, [i \in 1..Len(merged) |-> MergedKey(merged[i])], FALSE)
    IN  [i \in 1..Len(up) |-> up[Len(up) + 1 - i]]

\* line 269
MergedOrder(merged) ==
    StableSort(merged, [i \in 1..Len(merged) |-> MergedKey(merged[i])], TRUE)

\* The supplementary list is returned as it is.
MergeKaggleAlone_Unchanged(S, C) == S

\* lines 212-214: the supplementary list itself is updated and returned.
MergeKaggleAlone(S, C) == [i \in 1..Len(S) |-> RaiseConnections(S[i], C)]

\* lines 219-235
MergeEntitiesAlone(P, C) == [i \in 1..Len(P) |-> EntityAsPerson(P[i], C)]

\* lines 238-270.  Returns the merged list and kaggle_data as the loop at
\* lines 264-267 leaves it (its records are updated in place).
MergeBoth(P, S, C) ==
    LET seen == {Lower(P[i].name) : i \in 1..Len(P)}
        fromEntities ==
            [i \in 1..Len(P) |-> MergedEntry(P[i], KaggleMatch(S, Lower(P[i].name)), C)]
        updated ==
            [i \in 1..Len(S) |->
                IF KaggleOnly(S[i], seen) THEN RaiseConnections(S[i], C) ELSE S[i]]
        isOnly(p) == KaggleOnly(p, seen)
    IN  [persons |-> MergedOrder(fromEntities \o SelectSeq(updated, isOnly)),
         kaggle  |-> updated]

\* P, S: None or a list.  Returns [persons, kaggle]: the returned list and
\* the supplementary data after the call.
merge_persons(P, S, C) ==
    IF ~Truthy(P)
    THEN IF Truthy(S)
         THEN [persons |-> MergeKaggleAlone(S.rows, C),
               kaggle  |-> Some(MergeKaggleAlone(S.rows, C))]
         ELSE [persons |-> <<>>, kaggle |-> S]
    ELSE IF ~Truthy(S)
         THEN [persons |-> MergeEntitiesAlone(P.rows, C), kaggle |-> S]
         ELSE LET m == MergeBoth(P.rows, S.rows, C)
              IN  [persons |-> m.persons, kaggle |-> Some(m.kaggle)]

---------------------------------------------------------------------------
(* process_flights                                                         *)

\* The date strings of the inputs: their place in the order of str and the
\* match of (19|20)\d{2} in them ("" when there is none).
DateTable ==
    ("" :> [rank |-> 0, year |-> ""])
    @@ ("1999-05-01" :> [rank |-> 1, year |-> "1999"])
    @@ ("2002-01-15" :> [rank |-> 2, year |-> "2002"])
    @@ ("n/a" :> [rank |-> 3, year |-> ""])

\* f"{name} ({code})" if code and name else (name or code or "")
AirportDisplay(name, code) ==
    IF code # "" /\ name # "" THEN name \o " (" \o code \o ")" ELSE OrStr(name, code)

\* lines 287-324.  The passenger string is modelled by its pieces between the
\* delimiters , ; / & (the empty string has none); the inputs hold no
\* brackets or quotes, so strip("[]\"'") leaves its ends as they are.
FlightEntry(record) ==
    LET date == Strip(Get(record, "flight_date", ""))
        dep_code == Strip(Get(record, "departure_airport_code", ""))
        dep_name == Strip(Get(record, "departure_airport", ""))
        arr_code == Strip(Get(record, "arrival_airport_code", ""))
        arr_name == Strip(Get(record, "arrival_airport", ""))
    IN  [date           |-> date,
         year           |-> DateTable[date].year,
         departure      |-> AirportDisplay(dep_name, dep_code),
         departure_code |-> dep_code,
         arrival        |-> AirportDisplay(arr_name, arr_code),
         arrival_code   |-> arr_code,
         aircraft       |-> Strip(OrStr(Get(record, "aircraft_tail_number", ""),
                                        Get(record, "aircraft_id", ""))),
         pilot          |-> Strip(OrStr(Get(record, "pilot_name", ""),
                                        Get(record, "pilot", ""))),
         passengers     |-> Get(record, "passenger_names", <<>>)]

\* line 327: key date, ascending.
FlightKey(f) == <<DateTable[f.date].rank>>

process_flights(file) ==
    IF ~file.present THEN None
    ELSE LET processed == [i \in 1..Len(file.rows) |-> FlightEntry(file.rows[i])]
         IN  Some(StableSort(processed,
                             [i \in 1..Len(processed) |-> FlightKey(processed[i])],
                             FALSE))

---------------------------------------------------------------------------
(* build_network                                                           *)

\* nodes is a dict keyed by id, in insertion order.
HasNode(nodes, id) == \E i \in 1..Len(nodes) : nodes[i].id = id

\* lines 489-500
PersonNode(p) ==
    [id            |-> p.name,
     group         |-> Get(p, "category", Get(p, "entity_type", "Unknown")),
     flights       |-> Get(p, "flights", 0),
     documents     |-> Get(p, "documents", 0),
     connections   |-> Get(p, "connections", 0),
     in_black_book |-> Get(p, "in_black_book", FALSE),
     nationality   |-> Get(p, "nationality", "Unknown"),
     images        |-> Get(p, "images", <<>>)]

\* lines 512-516 and 535-538
StubNode(id, group) ==
    [id |-> id, group |-> group, flights |-> 0, documents |-> 0, connections |-> 0]

\* "if name not in nodes: nodes[name] = ..."
AddNode(nodes, node) == IF HasNode(nodes, node.id) THEN nodes ELSE Append(nodes, node)


\* A slice that is one person too long.
BasePersons_OffByOne(persons) == Take(persons, PersonNodeCap + 1)

\* line 488: persons_data[:300]
BasePersons(persons) == Take(persons, PersonNodeCap)

RECURSIVE PersonLoop(_, _, _, _)
PersonLoop(persons, lo, hi, nodes) ==
    IF lo > hi THEN nodes
    ELSE IF lo = hi THEN AddNode(nodes, PersonNode(persons[lo]))
    ELSE LET mid == (lo + hi) \div 2
             left == PersonLoop(persons, lo, mid, nodes)
         IN  IF left = nodes THEN PersonLoop(persons, mid + 1, hi, nodes)
             ELSE PersonLoop(persons, mid + 1, hi, left)

\* lines 487-500
BaseNodes(persons) ==
    LET base == BasePersons(persons)
    IN  PersonLoop(base, 1, Len(base), <<>>)


\* No slice: every relationship edge is taken.
RelLinksTaken_All(rel_links) == rel_links

\* line 505: rel_links[:1000]
RelLinksTaken(rel_links) == Take(rel_links, RelLinkCap)


\* Only the source endpoint gets a node.
RelStep_SourceOnly(nodes, link) == AddNode(nodes, StubNode(link.source, "Relationship"))

\* lines 506-518: the stub nodes of one link's endpoints.
RelStep(nodes, link) ==
    AddNode(AddNode(nodes, StubNode(link.source, "Relationship")),
            StubNode(link.target, "Relationship"))

RECURSIVE RelLoop(_, _, _, _)
RelLoop(links, lo, hi, nodes) ==
    IF lo > hi THEN nodes
    ELSE IF lo = hi THEN RelStep(nodes, links[lo])
    ELSE LET mid == (lo + hi) \div 2
             left == RelLoop(links, lo, mid, nodes)
         IN  IF left = nodes THEN RelLoop(links, mid + 1, hi, nodes)
             ELSE RelLoop(links, mid + 1, hi, left)

\* The order of str on the passenger names after title(): the names of the
\* inputs in order, then the generated "N<i>", ordered as strings of digits.
NameRank ==
    ("Ann" :> 1) @@ ("Bob" :> 2) @@ ("Dee" :> 3) @@ ("Eve" :> 4)

GenIndex == [s \in {GenTitle(i) : i \in 1..GenCount} |->
                CHOOSE i \in 1..GenCount : GenTitle(i) = s]

Digits(i) == IF i < 10 THEN 1 ELSE IF i < 100 THEN 2 ELSE 3

\* "N<i>" < "N<j>" as strings, for i, j < 1000.
GenLess(i, j) ==
    LET ki == i * (IF Digits(i) = 1 THEN 100 ELSE IF Digits(i) = 2 THEN 10 ELSE 1)
        kj == j * (IF Digits(j) = 1 THEN 100 ELSE IF Digits(j) = 2 THEN 10 ELSE 1)
    IN  ki < kj \/ (ki = kj /\ Digits(i) < Digits(j))

StrLess(a, b) ==
    IF a \in DOMAIN NameRank
    THEN IF b \in DOMAIN NameRank THEN NameRank[a] < NameRank[b] ELSE TRUE
    ELSE IF b \in DOMAIN NameRank THEN FALSE
         ELSE GenLess(GenIndex[a], GenIndex[b])

\* tuple(sorted([p1, p2]))
SortedPair(p1, p2) == IF StrLess(p2, p1) THEN <<p2, p1>> ELSE <<p1, p2>>

\* line 527: the pieces that are kept, stripped and in title case.
PaxKeep(piece) == Strip(piece) \notin ShortStrings

PaxNames(pieces) ==
    LET kept == SelectSeq(pieces, PaxKeep)
    IN  [i \in 1..Len(kept) |-> Title(Strip(kept[i]))]

\* lines 528-529: the pairs (p1, p2) in the order the two loops visit them.
RECURSIVE PairsFrom(_, _)
PairsFrom(pax, i) ==
    IF i >= Len(pax) THEN <<>>
    ELSE [j \in 1..(Len(pax) - i) |-> <<pax[i], pax[i + j]>>] \o PairsFrom(pax, i + 1)

\* "if pax_str:" the passenger string is not empty.
PaxTruthy(pieces) == pieces # <<>> /\ pieces # <<"">>

FlightPairs(flight) ==
    LET pieces == Get(flight, "passengers", <<>>)
    IN  IF PaxTruthy(pieces) THEN PairsFrom(PaxNames(pieces), 1) ELSE <<>>

\* line 523: the pairs of all flights, in the order of the loops.
RECURSIVE AllPairs(_, _)
AllPairs(flights, i) ==
    IF i > Len(flights) THEN <<>>
    ELSE FlightPairs(flights[i]) \o AllPairs(flights, i + 1)

\* co_occurrence is a Counter in insertion order: a sequence of [key, count].
PairInc(counter, key) ==
    IF \E i \in 1..Len(counter) : counter[i].key = key
    THEN LET at == CHOOSE i \in 1..Len(counter) : counter[i].key = key
         IN  [counter EXCEPT ![at].count = @ + 1]
    ELSE Append(counter, [key |-> key, count |-> 1])

\* lines 530-538: one pair of passengers; st is [counter, nodes].
PairStep(st, pair) ==
    IF pair[1] # pair[2]
    THEN [counter |-> PairInc(st.counter, SortedPair(pair[1], pair[2])),
          nodes   |-> AddNode(AddNode(st.nodes, StubNode(pair[1], "Flight Passenger")),
                              StubNode(pair[2], "Flight Passenger"))]
    ELSE st

RECURSIVE PairLoop(_, _, _, _)
PairLoop(pairs, lo, hi, st) ==
    IF lo > hi THEN st
    ELSE IF lo = hi THEN PairStep(st, pairs[lo])
    ELSE LET mid == (lo + hi) \div 2
             left == PairLoop(pairs, lo, mid, st)
         IN  IF left = st THEN PairLoop(pairs, mid + 1, hi, st)
             ELSE PairLoop(pairs, mid + 1, hi, left)

\* Counter.most_common(n): by count, largest first, equal counts in
\* insertion order; the first n.
CountKey(entry) == <<entry.count>>

MostCommon(counter, n) ==
    Take(StableSort(counter, [i \in 1..Len(counter) |-> CountKey(counter[i])], TRUE), n)

\* line 541
CoLink(entry) ==
    [source |-> entry.key[1], target |-> entry.key[2],
     weight |-> entry.count, type |-> "co-passenger"]

\* line 503: "if relationships_data": a tuple is truthy, None is not.
UseRelationships(rel) == rel.present


\* Co-occurrence whenever there are flights, relationships or not.
UseCoOccurrence_Always(rel, flights) == Truthy(flights)

\* line 521: "if flight_data and not relationships_data"
UseCoOccurrence(rel, flights) == Truthy(flights) /\ ~rel.present

\* lines 483-545.  persons: a list; rel: None or (links, nodes);
\* flights: None or a list.
build_network(persons, rel, flights) ==
    LET base == IF persons # <<>> THEN BaseNodes(persons) ELSE <<>>
        taken == IF UseRelationships(rel) THEN RelLinksTaken(rel.links) ELSE <<>>
        withRel == RelLoop(taken, 1, Len(taken), base)
        pairs == IF UseCoOccurrence(rel, flights) THEN AllPairs(flights.rows, 1) ELSE <<>>
        co == PairLoop(pairs, 1, Len(pairs), [counter |-> <<>>, nodes |-> withRel])
        top == MostCommon(co.counter, CoOccurrenceCap)
    IN  [nodes |-> co.nodes,
         links |-> taken \o [i \in 1..Len(top) |-> CoLink(top[i])]]

---------------------------------------------------------------------------
(* process_documents                                                       *)

\* A line of a JSONL file is a JSON object (a record of its keys), a JSON
\* value that is no object, or text that json.loads rejects.  A value of an
\* object or of a CSV row is [str |-> s], [int |-> n], [list |-> <<...>>] or
\* [null |-> TRUE]; a CSV row holds only strings.
NotAnObject == [json |-> "array"]
InvalidLine == [json |-> "invalid"]

IsObject(record) == "json" \notin DOMAIN record

JStr(s) == [str |-> s]
JInt(n) == [int |-> n]
JList(l) == [list |-> l]
JNull == [null |-> TRUE]

\* lines 388-393: the lines of one file are appended until json.loads raises;
\* the exception ends the reading of that file.
ReadJsonl(lines) ==
    LET bad == {i \in 1..Len(lines) : lines[i] = InvalidLine}
    IN  IF bad = {} THEN lines
        ELSE SubSeq(lines, 1, (CHOOSE i \in bad : \A j \in bad : i <= j) - 1)

RECURSIVE Concat(_)
Concat(seqs) == IF seqs = <<>> THEN <<>> ELSE Head(seqs) \o Concat(Tail(seqs))

\* lines 384-403: the records of the JSONL files, then those of the CSV files.
AllDocumentRecords(folder) ==
    Concat([i \in 1..Len(folder.jsonl) |-> ReadJsonl(folder.jsonl[i])])
    \o Concat(folder.csv)

\* "x or y" for a JSON value x: "", 0, [] and None are falsy.
JFalsy(v) ==
    \/ "null" \in DOMAIN v
    \/ "str" \in DOMAIN v /\ v.str = ""
    \/ "int" \in DOMAIN v /\ v.int = 0
    \/ "list" \in DOMAIN v /\ v.list = <<>>

\* The text of a value that is a string; the inputs hold strings here.
TextOr(v, other) == IF JFalsy(v) THEN other ELSE v.str

\* lines 424-428: int(record.get("importance_score", 0) or 0) in try/except
\* (ValueError, TypeError).
Importance(record) ==
    LET raw == Get(record, "importance_score", JInt(0))
    IN  IF JFalsy(raw) THEN 0
        ELSE IF "int" \in DOMAIN raw THEN raw.int
        ELSE IF "str" \in DOMAIN raw THEN IntOr(raw.str, 0, 0)
        ELSE 0

\* str.strip("[]'\"") and split(","), each piece stripped of blanks and
\* quotes, the blank pieces left out: the list strings of the inputs.
ParseListTable ==
    ("['FBI', 'CIA']" :> <<"FBI", "CIA">>) @@ ("FBI, ,CIA" :> <<"FBI", "CIA">>)
    @@ ("[]" :> <<>>) @@ ("FBI" :> <<"FBI">>)

NotBlank(s) == Strip(s) # ""

\* lines 410-416
parse_list(val) ==
    IF JFalsy(val) THEN <<>>
    ELSE IF "list" \in DOMAIN val
         THEN LET kept == SelectSeq(val.list, NotBlank)
              IN  [i \in 1..Len(kept) |-> Strip(kept[i])]
         ELSE ParseListTable[val.str]

DocumentFilename(record) ==
    Strip(OrStr(TextOr(Get(record, "filename", JStr("")), ""),
                TextOr(Get(record, "Filename", JStr("")), "")))

DocumentHeadline(record) ==
    Strip(OrStr(TextOr(Get(record, "headline", JStr("")), ""),
                TextOr(Get(record, "title", JStr("")), "")))

\* A record is kept when it has a filename and a headline.
DocumentKeep_Both(record) ==
    DocumentFilename(record) # "" /\ DocumentHeadline(record) # ""

\* lines 421-422
DocumentKeep(record) == DocumentFilename(record) # "" \/ DocumentHeadline(record) # ""

\* lines 419-442
DocumentEntry(record) ==
    [filename           |-> DocumentFilename(record),
     headline           |-> DocumentHeadline(record),
     importance_score   |-> Importance(record),
     reason             |-> Strip(TextOr(Get(record, "reason", JStr("")), "")),
     tags               |-> parse_list(Get(record, "tags", JList(<<>>))),
     power_mentions     |-> parse_list(Get(record, "power_mentions", JList(<<>>))),
     agency_involvement |-> parse_list(Get(record, "agency_involvement", JList(<<>>))),
     lead_types         |-> parse_list(Get(record, "lead_types", JList(<<>>))),
     key_insights       |-> parse_list(Get(record, "key_insights", JList(<<>>)))]

\* line 444: key importance_score, reverse.
DocumentKey(d) == <<d.importance_score>>

\* lines 375-447.  folder: the JSONL files (in the order of their names) and
\* the CSV files of data/documents, each the sequence of its lines or rows.
\* Returns [raised, data]: record.get raises AttributeError at line 419 for
\* a JSON line that is no object, and nothing in the function catches it.
process_documents(folder) ==
    LET all == AllDocumentRecords(folder)
        kept == SelectSeq(all, DocumentKeep)
        processed == [i \in 1..Len(kept) |-> DocumentEntry(kept[i])]
    IN  IF all = <<>> THEN [raised |-> FALSE, data |-> None]
        ELSE IF \E i \in 1..Len(all) : ~IsObject(all[i])
             THEN [raised |-> TRUE, data |-> None]
             ELSE [raised |-> FALSE,
                   data   |-> Some(StableSort(processed,
                                  [i \in 1..Len(processed) |-> DocumentKey(processed[i])],
                                  TRUE))]

---------------------------------------------------------------------------
(* process_emails                                                          *)

\* lines 463-469
EmailEntry(record) ==
    [date    |-> Strip(Get(record, "date", "")),
     from    |-> Strip(Get(record, "from", "")),
     to      |-> Strip(Get(record, "to", "")),
     subject |-> Strip(Get(record, "subject", "")),
     slug    |-> Strip(Get(record, "slug", ""))]

\* line 470
EmailKeep(entry) == entry.from # "" \/ entry.to # ""

\* line 473: key date, ascending.
EmailKey(e) == <<DateTable[e.date].rank>>

\* lines 450-476
process_emails(file) ==
    IF ~file.present THEN None
    ELSE LET all == [i \in 1..Len(file.rows) |-> EmailEntry(file.rows[i])]
             processed == SelectSeq(all, EmailKeep)
         IN  Some(StableSort(processed,
                             [i \in 1..Len(processed) |-> EmailKey(processed[i])],
                             FALSE))

---------------------------------------------------------------------------
(* generate_summary                                                        *)

\* Counter(iterable): a Counter in insertion order, a sequence of [key, count].
RECURSIVE TallyLoop(_, _, _, _)
TallyLoop(keys, lo, hi, counter) ==
    IF lo > hi THEN counter
    ELSE IF lo = hi THEN PairInc(counter, keys[lo])
    ELSE LET mid == (lo + hi) \div 2
             left == TallyLoop(keys, lo, mid, counter)
         IN  IF left = counter THEN TallyLoop(keys, mid + 1, hi, counter)
             ELSE TallyLoop(keys, mid + 1, hi, left)

Tally(keys) ==
    LET ks == keys \o <<>>
    IN  TallyLoop(ks, 1, Len(ks), <<>>)

\* dict(sorted(counter.items())): the mapping from key to count; its keys
\* are written in the order of str.
SortedDict(counter) ==
    [k \in {counter[i].key : i \in 1..Len(counter)} |->
        counter[CHOOSE i \in 1..Len(counter) : counter[i].key = k].count]

\* The values of one field of the records, for the records where it is truthy.
FieldKeys(rows, field) ==
    LET has(r) == Get(r, field, "") # ""
        kept == SelectSeq(rows, has)
    IN  [i \in 1..Len(kept) |-> kept[i][field]]

RECURSIVE SumSeq(_, _)
SumSeq(seq, i) == IF i > Len(seq) THEN 0 ELSE seq[i] + SumSeq(seq, i + 1)

\* line 560: sum(len(v) for v in image_index.values())
TotalImages(index) == SumSeq([i \in 1..Len(index) |-> Len(index[i].images)], 1)

\* line 567: p.get("category", p.get("entity_type", "Unknown"))
CategoryOf(p) == Get(p, "category", Get(p, "entity_type", "Unknown"))

\* lines 577-578: p.get("connections", p.get("documents", 0))
ConnectionsOf(p) == Get(p, "connections", Get(p, "documents", 0))

FlightsKey(p) == <<Get(p, "flights", 0)>>
ConnectionsKey(p) == <<ConnectionsOf(p)>>

\* lines 571-575
TopByFlights(persons) ==
    LET positive(p) == Get(p, "flights", 0) > 0
        top == SelectSeq(Take(StableSort(persons,
                   [i \in 1..Len(persons) |-> FlightsKey(persons[i])], TRUE), 15),
                   positive)
    IN  [i \in 1..Len(top) |-> [name |-> top[i].name, flights |-> top[i].flights]]

\* lines 576-579
TopByConnections(persons) ==
    LET top == Take(StableSort(persons,
                   [i \in 1..Len(persons) |-> ConnectionsKey(persons[i])], TRUE), 15)
    IN  [i \in 1..Len(top) |->
            [name |-> top[i].name, connections |-> ConnectionsOf(top[i])]]

\* lines 564-580
PersonsStats(persons) ==
    LET inBook(p) == Get(p, "in_black_book", FALSE)
    IN  [nationalities      |-> MostCommon(Tally(FieldKeys(persons, "nationality")), 20),
         categories         |-> MostCommon(Tally([i \in 1..Len(persons) |->
                                                     CategoryOf(persons[i])]), 20),
         in_black_book      |-> Len(SelectSeq(persons, inBook)),
         top_by_flights     |-> TopByFlights(persons),
         top_by_connections |-> TopByConnections(persons)]

\* lines 589-594: the (departure, arrival) of the flights that have both;
\* the inputs' display strings have no surrounding blanks.
RouteKeys(flights) ==
    LET both(f) == Strip(Get(f, "departure", "")) # "" /\ Strip(Get(f, "arrival", "")) # ""
        kept == SelectSeq(flights, both)
    IN  [i \in 1..Len(kept) |-> <<Strip(kept[i].departure), Strip(kept[i].arrival)>>]

\* line 600
RouteEntry(entry) == [from |-> entry.key[1], to |-> entry.key[2], count |-> entry.count]

\* lines 583-602
FlightStats(flights) ==
    LET routes == MostCommon(Tally(RouteKeys(flights)), 20)
    IN  [by_year        |-> SortedDict(Tally(FieldKeys(flights, "year"))),
         top_departures |-> MostCommon(Tally(FieldKeys(flights, "departure")), 15),
         top_arrivals   |-> MostCommon(Tally(FieldKeys(flights, "arrival")), 15),
         top_routes     |-> [i \in 1..Len(routes) |-> RouteEntry(routes[i])],
         aircraft_types |-> MostCommon(Tally(FieldKeys(flights, "aircraft")), 10)]

\* lines 613-620: the truthy items of one list field of all documents.
ListItems(docs, field) ==
    LET truthy(x) == x # ""
    IN  Concat([i \in 1..Len(docs) |-> SelectSeq(Get(docs[i], field, <<>>), truthy)])

\* line 622: f"{(score // 10) * 10}-{(score // 10) * 10 + 9}"; // is the
\* floor division.
\* The tens of the score rounded to the nearest ten.
BucketLow_Rounded(score) == ((score + 5) \div 10) * 10

BucketLow(score) == (score \div 10) * 10
Bucket(score) == ToString(BucketLow(score)) \o "-" \o ToString(BucketLow(score) + 9)

\* lines 621-623
ImportanceDist(docs) ==
    Tally([i \in 1..Len(docs) |-> Bucket(Get(docs[i], "importance_score", 0))])

\* line 631: round(sum / max(len, 1), 1), kept as the two terms of the quotient.
AvgImportance(docs) ==
    [sum   |-> SumSeq([i \in 1..Len(docs) |-> docs[i].importance_score], 1),
     count |-> Max(Len(docs), 1)]

\* lines 605-632
DocumentStats(docs) ==
    [top_tags                |-> MostCommon(Tally(ListItems(docs, "tags")), 30),
     top_power_mentions      |-> MostCommon(Tally(ListItems(docs, "power_mentions")), 20),
     top_agencies            |-> MostCommon(Tally(ListItems(docs, "agency_involvement")), 15),
     lead_types              |-> MostCommon(Tally(ListItems(docs, "lead_types")), 15),
     importance_distribution |-> SortedDict(ImportanceDist(docs)),
     avg_importance          |-> AvgImportance(docs)]

\* lines 638-641: the years found in the dates of the emails.
EmailYears(emails) ==
    LET hasYear(e) == DateTable[Get(e, "date", "")].year # ""
        kept == SelectSeq(emails, hasYear)
    IN  [i \in 1..Len(kept) |-> DateTable[kept[i].date].year]

\* lines 635-647
EmailStats(emails) ==
    [top_senders    |-> MostCommon(Tally(FieldKeys(emails, "from")), 15),
     top_recipients |-> MostCommon(Tally(FieldKeys(emails, "to")), 15),
     by_year        |-> SortedDict(Tally(EmailYears(emails)))]

NoKeys == [k \in {} |-> 0]

\* lines 548-654.  persons: a list; flights, documents, emails: None or a
\* list; a section is present when its data is truthy.
generate_summary(persons, flights, documents, emails, index) ==
    [total_persons   |-> Len(persons),
     total_flights   |-> Len(flights.rows),
     total_documents |-> Len(documents.rows),
     total_emails    |-> Len(emails.rows),
     total_images    |-> TotalImages(index),
     data_sources    |-> [doj_datasets |-> 12, doj_total_pages |-> "~3,500,000"]]
    @@ (IF persons # <<>> THEN [persons_stats |-> PersonsStats(persons)] ELSE NoKeys)
    @@ (IF Truthy(flights) THEN [flight_stats |-> FlightStats(flights.rows)] ELSE NoKeys)
    @@ (IF Truthy(documents)
        THEN [document_stats |-> DocumentStats(documents.rows)] ELSE NoKeys)
    @@ (IF Truthy(emails) THEN [email_stats |-> EmailStats(emails.rows)] ELSE NoKeys)

---------------------------------------------------------------------------
(* The export of main(), lines 692-715                                     *)

OutputFiles ==
    <<"persons_of_interest.json", "flight_logs.json", "documents.json",
      "network.json", "summary.json">>

\* The five values of the exports dict, in the order of OutputFiles; None is
\* kept as None.
ExportData(persons, flights, documents, network, summary) ==
    <<Some(persons), flights, documents, network, summary>>

\* json.dump(data) whatever data is: None is written as null.
FileContent_Null(filename, data) ==
    IF filename \in {"network.json", "summary.json"} THEN data
    ELSE IF data.present THEN data.rows ELSE JNull

\* lines 702-713: what json.dump writes for one entry of exports.  A list is
\* truthy when it is not empty; the network and the summary are dicts with
\* keys, always truthy.
FileContent(filename, data) ==
    IF filename \in {"network.json", "summary.json"} THEN data
    ELSE IF Truthy(data) THEN data.rows ELSE <<>>


\* open(filepath, "a"): the new text follows what the file held.
WriteFile_Append(files, filename, content) ==
    IF filename \in DOMAIN files
    THEN [files EXCEPT ![filename] = <<@, content>>]
    ELSE files @@ (filename :> content)

\* open(filepath, "w"): the file holds the new text only.
WriteFile(files, filename, content) ==
    IF filename \in DOMAIN files
    THEN [files EXCEPT ![filename] = content]
    ELSE files @@ (filename :> content)

RECURSIVE ExportLoop(_, _, _)
ExportLoop(files, data, i) ==
    IF i > Len(OutputFiles) THEN files
    ELSE ExportLoop(WriteFile(files, OutputFiles[i],
                              FileContent(OutputFiles[i], data[i])),
                    data, i + 1)

---------------------------------------------------------------------------
(* The input files.  A file is None (it does not exist) or its rows; a CSV *)
(* row is a record of the columns of the file.                             *)

SeqsUpTo(S, n) == UNION {[1..k -> S] : k \in 0..n}

Files(rows, n) == {None} \cup {Some(r) : r \in SeqsUpTo(rows, n)}

\* Files of up to n rows: any first row, the rows after it from a few.
FilesFrom(first, later, n) ==
    {None, Some(<<>>)}
    \cup {Some(<<f>> \o rest) : f \in first, rest \in SeqsUpTo(later, n - 1)}

EntityRow(name, flight_count, document_count) ==
    [name |-> name, entity_type |-> "person", role_description |-> "",
     document_count |-> document_count, flight_count |-> flight_count,
     email_count |-> "0", slug |-> ""]

KaggleRow(name, flights, documents, connections) ==
    [Name |-> name, Flights |-> flights, Documents |-> documents,
     Connections |-> connections, Bio |-> "", Nationality |-> "",
     Category |-> "Politician"]
    @@ ("In Black Book" :> "Yes")

RelRow(a, b, strength) ==
    [entity_a |-> a, entity_b |-> b, relationship_type |-> "associate",
     strength |-> strength]

FlightRow(date, pieces) ==
    [flight_date |-> date, aircraft_tail_number |-> "N908JE", pilot_name |-> "",
     departure_airport_code |-> "PBI", departure_airport |-> "Palm Beach",
     arrival_airport_code |-> "TEB", arrival_airport |-> "",
     passenger_names |-> pieces]

\* Profile "count": relationship files over three names, with a blank name,
\* parallel edges and self-loops.
CountRelRows ==
    {RelRow(a, b, "") : a \in {"Ann", "Bob", "Eve"}, b \in {"Ann", "Bob", "Eve"}}
    \cup {RelRow("", "Bob", ""), RelRow("Ann", "Bob", "2")}

\* Profile "merge": both person sources over three names, two of them equal
\* up to case, with every combination of the counts 0 and 1.
MergeNames == {"Ann", "ann", "Bob"}
MergeCounts == {"0", "1"}

MergeEntityRows ==
    {EntityRow(n, f, d) : n \in MergeNames, f \in MergeCounts, d \in MergeCounts}

MergeKaggleRows ==
    {KaggleRow(n, f, d, c) :
        n \in MergeNames, f \in MergeCounts, d \in MergeCounts, c \in MergeCounts}

\* The rows after the first: one per name, with different counts.
MergeEntityLater ==
    {EntityRow("Ann", "1", "0"), EntityRow("ann", "0", "1"), EntityRow("Bob", "0", "0")}

MergeKaggleLater ==
    {KaggleRow("Ann", "1", "1", "0"), KaggleRow("ann", "0", "0", "1"),
     KaggleRow("Bob", "1", "0", "0")}

MergeRelFiles ==
    {None,
     Some(<<RelRow("Ann", "Bob", "")>>),
     Some(<<RelRow("Ann", "Ann", ""), RelRow("ann", "Ann", "")>>)}

\* Profile "net": a few persons, relationship files that are absent, empty,
\* without a valid row or with rows, and flights of up to MaxPax pieces.
NetEntityFiles ==
    {None,
     Some(<<EntityRow("Ann", "1", "0")>>),
     Some(<<EntityRow("Ann", "1", "0"), EntityRow("Bob", "0", "1")>>)}

NetKaggleFiles == {None}

NetRelFiles ==
    {None,
     Some(<<>>),
     Some(<<RelRow("", "Bob", "1")>>),
     Some(<<RelRow("Ann", "Eve", "2")>>),
     Some(<<RelRow("Eve", "Eve", ""), RelRow("Bob", " Ann ", "1.5")>>)}

\* " Ann " and "ann" are one passenger, "Cy" is too short to be one.
NetPieces == {" Ann ", "ann", "Dee", "Cy"}

NetFlightRows == {FlightRow("1999-05-01", p) : p \in SeqsUpTo(NetPieces, MaxPax)}

\* The flights after the first: a pair again, a pair the other way round
\* among three passengers, and a flight without a pair.
NetFlightLater ==
    {FlightRow("1999-05-01", <<"Dee", " Ann ">>),
     FlightRow("1999-05-01", <<"ann", "Bob", "Dee">>),
     FlightRow("1999-05-01", <<"Cy">>)}

\* Profile "caps": inputs longer than the caps of build_network.  Entity i
\* is named "n<i>"; with dup, the second row repeats the name of the first.
CapsEntityRows(n, dup) ==
    [i \in 1..n |->
        EntityRow(IF dup /\ i = 2 THEN GenLower(1) ELSE GenLower(i),
                  IF i % 3 = 0 THEN "1" ELSE "0", "0")]

CapsEntityFiles ==
    {None} \cup
    {Some(CapsEntityRows(n, dup)) :
        n \in PersonNodeCap..(PersonNodeCap + CapSlack), dup \in BOOLEAN}

CapsKaggleFiles == {None, Some(<<KaggleRow(GenTitle(1), "2", "0", "1")>>)}

\* Edge i joins two of the persons, or a person and "Eve"; its type is "t<i>".
CapsRelRows(n) ==
    [i \in 1..n |->
        [entity_a |-> GenLower(1 + (i % 7)),
         entity_b |-> IF i % 5 = 0 THEN "Eve" ELSE GenLower(8 + (i % 11)),
         relationship_type |-> "t" \o ToString(i),
         strength |-> "1"]]

CapsRelFiles ==
    {None} \cup {Some(CapsRelRows(n)) : n \in RelLinkCap..(RelLinkCap + CapSlack)}

\* A flight of n passengers "n1", ..., "n<n>".
CapsFlight(n) == FlightRow("1999-05-01", [i \in 1..n |-> GenLower(i)])

CapsFlightFiles ==
    {None,
     Some(<<CapsFlight(BigPax - 1)>>),
     Some(<<CapsFlight(BigPax), FlightRow("2002-01-15", <<"n30", "n32", "n31">>),
            FlightRow("n/a", <<GenLower(GenCount - 1), GenLower(GenCount)>>)>>)}

\* Profile "parse": raw fields that parse, that do not and that are blank or
\* negative, names of one and of two tokens, and an image index.
ParseNames == {"Dee Eve", "dee eve", "Eve", "Dee", "Cy Eve", "Cy Cy"}
ParseCounts == {"", "2", "-1", "x", " 2"}
ParseStrengths == {"", "2", "0", "0.4", "1.5", "-1", "x"}

ParseEntityRows == {EntityRow(n, f, "1") : n \in ParseNames, f \in ParseCounts}

ParseEntityLater == {EntityRow("Dee", "2", "x"), EntityRow("Dee Eve", "0", "-1")}

\* Rows of the current and of the older Kaggle format.
ParseKaggleFiles ==
    {None,
     Some(<<KaggleRow("Dee Eve", "x", "-1", "2")>>),
     Some(<<[Name |-> "Dee", Flights |-> "x", Documents |-> ""]
            @@ ("Number of flights" :> "3") @@ ("Number of documents" :> "2")>>),
     Some(<<("Persons of Interest" :> "Eve") @@ ("Number of flights" :> "3")
            @@ ("Number of documents" :> "x"),
            KaggleRow("Cy Eve", "1", "1", "-1")>>)}

ParseRelFiles ==
    {None} \cup {Some(<<RelRow("Dee Eve", "Eve", w)>>) : w \in ParseStrengths}

Image(filename) == [filename |-> filename, category |-> "persons"]

IndexEntry(key, images) == [key |-> key, images |-> images]

\* image_index.json: keys in the order of the file.
ParseImageIndexes ==
    {<<>>,
     <<IndexEntry("Dee A. Eve", <<Image("a.jpg")>>),
       IndexEntry("Dee Eve", <<Image("b.jpg"), Image("c.jpg")>>)>>,
     <<IndexEntry("Deedee", <<Image("d.jpg")>>),
       IndexEntry("Dee A. Eve", <<Image("a.jpg")>>),
       IndexEntry("Eve", <<Image("e.jpg")>>)>>,
     <<IndexEntry("Dee A. Eve", <<Image("a.jpg")>>), IndexEntry("Dee Eve", <<>>)>>,
     <<IndexEntry("Cy Eve", <<>>), IndexEntry("Eve", <<Image("e.jpg")>>)>>}

\* Profile "docs": document folders with JSONL lines and CSV rows, email
\* files, and one person source.
NoDocuments == [jsonl |-> <<>>, csv |-> <<>>]

DocScores ==
    {JInt(47), JInt(0), JInt(9), JInt(-5), JInt(100), JStr("47"), JStr("x"), JNull}

DocLines ==
    {[filename |-> JStr("a.pdf"), importance_score |-> v, tags |-> JList(<<"FBI", " FBI ", "">>)] :
        v \in DocScores}
    \cup {[filename |-> JStr("b.pdf"), headline |-> JStr("Memo")],
          [filename |-> JStr(" "), importance_score |-> JInt(47)],
          [title |-> JStr("Note"), importance_score |-> JInt(40), tags |-> JStr("['FBI', 'CIA']")],
          NotAnObject, InvalidLine}

DocCsvRows ==
    {[Filename |-> JStr("c.pdf"), importance_score |-> JStr("47"), tags |-> JStr("FBI, ,CIA")],
     [Filename |-> JStr("d.pdf"), importance_score |-> JStr(""), tags |-> JStr("[]")]}

DocFolders ==
    {[jsonl |-> j, csv |-> c] :
        j \in {<<>>} \cup {<<lines>> : lines \in SeqsUpTo(DocLines, MaxDocLines)},
        c \in {<<>>} \cup {<<<<r>>>> : r \in DocCsvRows}}

EmailRow(date, from, to) ==
    [date |-> date, from |-> from, to |-> to, subject |-> "Re", slug |-> ""]

DocsEmailFiles ==
    {None,
     Some(<<EmailRow("2002-01-15", "ann", ""), EmailRow("1999-05-01", " Ann ", "Bob")>>),
     Some(<<EmailRow("n/a", "", ""), EmailRow("", "", "Bob")>>)}

DocsEntityFiles == {None, Some(<<EntityRow("Ann", "1", "0"), EntityRow("Bob", "0", "1")>>)}

\* Profile "files": every source is absent or holds the rows below.
FilesEntities == Some(<<EntityRow("Ann", "1", "0"), EntityRow("Dee", "0", "1")>>)
FilesKaggle == Some(<<KaggleRow("ann", "2", "0", "1"), KaggleRow("Bob", "0", "0", "3")>>)
FilesFlights ==
    Some(<<FlightRow("2002-01-15", <<"Ann", "Dee">>), FlightRow("1999-05-01", <<"Dee", " Ann ", "Bob">>)>>)
FilesRelationships == Some(<<RelRow("Ann", "Bob", "2"), RelRow("Eve", "Ann", "")>>)
FilesDocuments ==
    [jsonl |-> <<<<[filename |-> JStr("a.pdf"), importance_score |-> JInt(47),
                    tags |-> JList(<<"FBI">>)]>>>>,
     csv   |-> <<<<[Filename |-> JStr("c.pdf"), importance_score |-> JStr("47"),
                    tags |-> JStr("FBI, ,CIA")]>>>>]
FilesEmails == Some(<<EmailRow("2002-01-15", "ann", "Bob")>>)
FilesImageIndex == <<IndexEntry("Ann", <<Image("a.jpg")>>)>>

\* Profile "order": persons of both sources with equal and different
\* (flights, documents), for the order of the merged list.
OrderEntityRows == {EntityRow(n, f, "0") : n \in {"Ann", "Bob"}, f \in {"0", "1"}}

OrderEntityLater ==
    {EntityRow("Bob", "1", "0"), EntityRow("Dee", "0", "0"), EntityRow("Dee", "1", "0")}

OrderKaggleRows ==
    {KaggleRow(n, f, "0", c) : n \in {"ann", "Eve"}, f \in {"0", "1"}, c \in {"0", "1"}}

OrderKaggleLater ==
    {KaggleRow("Eve", "1", "0", "0"), KaggleRow("Fay", "1", "0", "0"),
     KaggleRow("Fay", "0", "0", "1")}

\* Profile "keep": rows and lines whose name, filename or headline is blank,
\* empty or missing, next to rows that have them.
KeepEntityRows ==
    {EntityRow(n, "1", "0") : n \in {"Ann", " Ann ", " ", ""}}
    \cup {[entity_type |-> "person", flight_count |-> "1"]}

KeepEntityLater == {EntityRow("Bob", "0", "0"), EntityRow("  ", "0", "0")}

KeepKaggleFiles ==
    {None,
     Some(<<KaggleRow(" bob", "0", "0", "0"), KaggleRow(" ", "1", "0", "0")>>),
     Some(<<("Persons of Interest" :> "Eve") @@ ("Flights" :> "1"),
            [Name |-> "", Flights |-> "2"] @@ ("Persons of Interest" :> " Ann "),
            [Flights |-> "3"]>>)}

KeepDocLines ==
    {[filename |-> JStr("a.pdf"), headline |-> JStr("Memo")],
     [filename |-> JStr("b.pdf"), headline |-> JStr(" ")],
     [title |-> JStr("Note")],
     [filename |-> JStr(" "), importance_score |-> JInt(47)],
     [filename |-> JNull, headline |-> JStr("")]}

KeepDocFolders ==
    {[jsonl |-> j, csv |-> <<>>] :
        j \in {<<>>} \cup {<<lines>> : lines \in SeqsUpTo(KeepDocLines, MaxDocLines)}}

Profiles == {"count", "merge", "net", "caps", "parse", "docs", "files", "order", "keep"}

ImageIndexes(p) ==
    CASE p = "parse" -> ParseImageIndexes
      [] p = "files" -> {<<>>, FilesImageIndex}
      [] OTHER -> {<<>>}

EntityFiles(p) ==
    CASE p = "count" -> {None}
      [] p = "merge" -> FilesFrom(MergeEntityRows, MergeEntityLater, MaxEntityRows)
      [] p = "net"   -> NetEntityFiles
      [] p = "caps"  -> CapsEntityFiles
      [] p = "parse" -> FilesFrom(ParseEntityRows, ParseEntityLater, MaxEntityRows)
      [] p = "docs"  -> DocsEntityFiles
      [] p = "files" -> {None, FilesEntities}
      [] p = "order" -> FilesFrom(OrderEntityRows, OrderEntityLater, MaxEntityRows)
      [] p = "keep"  -> FilesFrom(KeepEntityRows, KeepEntityLater, MaxEntityRows)

KaggleFiles(p) ==
    CASE p = "count" -> {None}
      [] p = "merge" -> FilesFrom(MergeKaggleRows, MergeKaggleLater, MaxKaggleRows)
      [] p = "net"   -> NetKaggleFiles
      [] p = "caps"  -> CapsKaggleFiles
      [] p = "parse" -> ParseKaggleFiles
      [] p = "docs"  -> {None}
      [] p = "files" -> {None, FilesKaggle}
      [] p = "order" -> FilesFrom(OrderKaggleRows, OrderKaggleLater, MaxKaggleRows)
      [] p = "keep"  -> KeepKaggleFiles

FlightFiles(p) ==
    CASE p = "net"   -> FilesFrom(NetFlightRows, NetFlightLater, MaxFlightRows)
      [] p = "caps"  -> CapsFlightFiles
      [] p = "files" -> {None, FilesFlights}
      [] OTHER -> {None}

RelFiles(p) ==
    CASE p = "count" -> Files(CountRelRows, MaxRelRows)
      [] p = "merge" -> MergeRelFiles
      [] p = "net"   -> NetRelFiles
      [] p = "caps"  -> CapsRelFiles
      [] p = "parse" -> ParseRelFiles
      [] p = "docs"  -> {None}
      [] p = "files" -> {None, FilesRelationships}
      [] p = "order" -> {None}
      [] p = "keep"  -> {None}

DocumentFolders(p) ==
    CASE p = "docs"  -> DocFolders
      [] p = "keep"  -> KeepDocFolders
      [] p = "files" -> {NoDocuments, FilesDocuments}
      [] OTHER -> {NoDocuments}

EmailFiles(p) ==
    CASE p = "docs"  -> DocsEmailFiles
      [] p = "files" -> {None, FilesEmails}
      [] OTHER -> {None}

\* The files a run of main() finds, for each profile.
Sources(p) ==
    [image_index   : ImageIndexes(p),
     entities      : EntityFiles(p),
     kaggle        : KaggleFiles(p),
     flights       : FlightFiles(p),
     relationships : RelFiles(p),
     documents     : DocumentFolders(p),
     emails        : EmailFiles(p)]

---------------------------------------------------------------------------
(* analyze_documents.py: the files, load_state, save_state, save_results   *)

\* Runs of the script that are started.
MaxRuns == 2

\* line 216
batch_size == 5

\* f.suffix.lower() of the file names of the inputs.
SuffixTable ==
    ("a.jpg" :> ".jpg") @@ ("b.png" :> ".png") @@ ("c.JPG" :> ".jpg")
    @@ ("d.jpeg" :> ".jpeg") @@ ("e.jpg" :> ".jpg") @@ ("f.jpg" :> ".jpg")
    @@ ("notes.txt" :> ".txt")

\* line 205: the suffixes that make a file an image.
IsImage(f) == SuffixTable[f] \in {".jpg", ".jpeg", ".png"}

\* sorted(): the file names of the inputs in the order of their paths.
FileRank ==
    ("a.jpg" :> 1) @@ ("b.png" :> 2) @@ ("c.JPG" :> 3) @@ ("d.jpeg" :> 4)
    @@ ("e.jpg" :> 5) @@ ("f.jpg" :> 6) @@ ("notes.txt" :> 7)

SortedFiles(S) ==
    [k \in 1..Cardinality(S) |->
        CHOOSE f \in S : Cardinality({g \in S : FileRank[g] < FileRank[f]}) = k - 1]

\* analysis_state.json: absent, text that json.loads rejects, or the object
\* that save_state wrote.  list(set) written and set(list) read: a set.
AbsentFile == [kind |-> "absent"]
CorruptFile == [kind |-> "corrupt"]

\* lines 82-83
DefaultState == [processed_files |-> {}, last_file |-> "None"]

\* lines 76-83
load_state(file) ==
    IF file.kind = "saved"
    THEN [processed_files |-> file.processed_files, last_file |-> file.last_file]
    ELSE DefaultState

\* lines 85-93: the file after save_state(processed_files, last_file).
save_state(processed, last_file) ==
    [kind |-> "saved", processed_files |-> processed, last_file |-> last_file,
     total_processed |-> Cardinality(processed)]

\* lines 95-110: the file_name column after save_results(results_list):
\* the rows of the file, then the new rows, the first row of a name kept.
save_results(csv, results_list) ==
    IF results_list = <<>> THEN csv
    ELSE LET cat == csv \o results_list
             keep == SelectSeq([k \in 1..Len(cat) |-> k],
                               LAMBDA k : \A j \in 1..(k - 1) : cat[j] # cat[k])
         IN  [k \in 1..Len(keep) |-> cat[keep[k]]]

\* line 205
AllImages(dir) == SortedFiles({f \in dir : IsImage(f)})


\* Every image of the folder, processed before or not.
Remaining_All(all_images, processed) == all_images

\* line 206
Remaining(all_images, processed) ==
    SelectSeq(all_images, LAMBDA f : f \notin processed)

\* The script is not running.
AnalysisIdle ==
    /\ docs_dir = {}
    /\ state_file = AbsentFile
    /\ results_csv = <<>>
    /\ apc = "idle"
    /\ runs = 0
    /\ processed_files = {}
    /\ to_process = <<>>
    /\ loop_i = 0
    /\ current_batch = <<>>
    /\ requests = <<>>
    /\ exit_log = ""
    /\ rate_limited = FALSE

---------------------------------------------------------------------------
(* main(): one action per call, in the order of lines 664-715.  A call that *)
(* raises ends the run: main() catches nothing.                            *)

NoRelationships == [present |-> FALSE, links |-> <<>>, nodes |-> {}]
NoNetwork == [nodes |-> <<>>, links |-> <<>>]
NoFiles == [f \in {} |-> <<>>]

\* The variables of main() before its first assignment.
Fresh ==
    /\ image_index = <<>>
    /\ entities_data = None
    /\ kaggle_data = None
    /\ kaggle_before = None
    /\ flight_data = None
    /\ relationships_data = NoRelationships
    /\ document_data = None
    /\ email_data = None
    /\ connection_counts = EmptyCounter
    /\ persons_data = <<>>
    /\ network_data = NoNetwork
    /\ summary_data = NoKeys

InitFor(p) ==
    /\ profile = p
    /\ sources \in Sources(p)
    /\ pc = "load"
    /\ run = 1
    /\ Fresh
    /\ written = NoFiles
    /\ first_written = NoFiles
    /\ AnalysisIdle

\* line 665
LoadImageIndex ==
    /\ pc = "load"
    /\ image_index' = sources.image_index
    /\ pc' = "entities"
    /\ UNCHANGED analysis
    /\ UNCHANGED <<profile, sources, run, entities_data, kaggle_data, kaggle_before,
                   flight_data, relationships_data, document_data, email_data,
                   connection_counts, persons_data, network_data, summary_data,
                   written, first_written>>

\* line 669
ProcessEntities ==
    /\ pc = "entities"
    /\ entities_data' = process_entities(sources.entities, image_index)
    /\ pc' = "kaggle"
    /\ UNCHANGED analysis
    /\ UNCHANGED <<profile, sources, run, image_index, kaggle_data, kaggle_before,
                   flight_data, relationships_data, document_data, email_data,
                   connection_counts, persons_data, network_data, summary_data,
                   written, first_written>>

\* line 670
ProcessPersonsKaggle ==
    /\ pc = "kaggle"
    /\ kaggle_data' = process_persons_kaggle(sources.kaggle, image_index)
    /\ pc' = "flights"
    /\ UNCHANGED analysis
    /\ UNCHANGED <<profile, sources, run, image_index, entities_data, kaggle_before,
                   flight_data, relationships_data, document_data, email_data,
                   connection_counts, persons_data, network_data, summary_data,
                   written, first_written>>

\* line 671
ProcessFlights ==
    /\ pc = "flights"
    /\ flight_data' = process_flights(sources.flights)
    /\ pc' = "relationships"
    /\ UNCHANGED analysis
    /\ UNCHANGED <<profile, sources, run, image_index, entities_data, kaggle_data,
                   kaggle_before, relationships_data, document_data, email_data,
                   connection_counts, persons_data, network_data, summary_data,
                   written, first_written>>

\* line 672
ProcessRelationships ==
    /\ pc = "relationships"
    /\ relationships_data' = process_relationships(sources.relationships)
    /\ pc' = "documents"
    /\ UNCHANGED analysis
    /\ UNCHANGED <<profile, sources, run, image_index, entities_data, kaggle_data,
                   kaggle_before, flight_data, document_data, email_data,
                   connection_counts, persons_data, network_data, summary_data,
                   written, first_written>>

\* line 673: an exception of process_documents leaves main().
ProcessDocuments ==
    /\ pc = "documents"
    /\ LET r == process_documents(sources.documents)
       IN  IF r.raised
           THEN /\ pc' = "crashed"
                /\ UNCHANGED document_data
           ELSE /\ pc' = "emails"
                /\ document_data' = r.data
    /\ UNCHANGED analysis
    /\ UNCHANGED <<profile, sources, run, image_index, entities_data, kaggle_data,
                   kaggle_before, flight_data, relationships_data, email_data,
                   connection_counts, persons_data, network_data, summary_data,
                   written, first_written>>

\* line 674
ProcessEmails ==
    /\ pc = "emails"
    /\ email_data' = process_emails(sources.emails)
    /\ pc' = "count"
    /\ UNCHANGED analysis
    /\ UNCHANGED <<profile, sources, run, image_index, entities_data, kaggle_data,
                   kaggle_before, flight_data, relationships_data, document_data,
                   connection_counts, persons_data, network_data, summary_data,
                   written, first_written>>

\* line 677
CountConnections ==
    /\ pc = "count"
    /\ connection_counts' = count_connections_from_relationships(relationships_data)
    /\ pc' = "merge"
    /\ UNCHANGED analysis
    /\ UNCHANGED <<profile, sources, run, image_index, entities_data, kaggle_data,
                   kaggle_before, flight_data, relationships_data, document_data,
                   email_data, persons_data, network_data, summary_data,
                   written, first_written>>

\* line 681: the call returns the merged list and leaves the supplementary
\* records it updated in kaggle_data.
MergePersons ==
    /\ pc = "merge"
    /\ LET m == merge_persons(entities_data, kaggle_data, connection_counts)
       IN  /\ persons_data' = m.persons
           /\ kaggle_data' = m.kaggle
    /\ kaggle_before' = kaggle_data
    /\ pc' = "network"
    /\ UNCHANGED analysis
    /\ UNCHANGED <<profile, sources, run, image_index, entities_data, flight_data,
                   relationships_data, document_data, email_data, connection_counts,
                   network_data, summary_data, written, first_written>>

\* line 684
BuildNetwork ==
    /\ pc = "network"
    /\ network_data' = build_network(persons_data, relationships_data, flight_data)
    /\ pc' = "summary"
    /\ UNCHANGED analysis
    /\ UNCHANGED <<profile, sources, run, image_index, entities_data, kaggle_data,
                   kaggle_before, flight_data, relationships_data, document_data,
                   email_data, connection_counts, persons_data, summary_data,
                   written, first_written>>

\* line 687
GenerateSummary ==
    /\ pc = "summary"
    /\ summary_data' = generate_summary(persons_data, flight_data, document_data,
                                        email_data, image_index)
    /\ pc' = "export"
    /\ UNCHANGED analysis
    /\ UNCHANGED <<profile, sources, run, image_index, entities_data, kaggle_data,
                   kaggle_before, flight_data, relationships_data, document_data,
                   email_data, connection_counts, persons_data, network_data,
                   written, first_written>>

\* lines 692-715
Export ==
    /\ pc = "export"
    /\ written' = ExportLoop(written,
                             ExportData(persons_data, flight_data, document_data,
                                        network_data, summary_data), 1)
    /\ pc' = "done"
    /\ UNCHANGED analysis
    /\ UNCHANGED <<profile, sources, run, locals, first_written>>

\* The script is started again on the same files under data/; the files
\* under dashboard/data are those of the first run.
RunAgain ==
    /\ pc = "done"
    /\ run = 1
    /\ run' = 2
    /\ first_written' = written
    /\ pc' = "load"
    /\ image_index' = <<>>
    /\ entities_data' = None
    /\ kaggle_data' = None
    /\ kaggle_before' = None
    /\ flight_data' = None
    /\ relationships_data' = NoRelationships
    /\ document_data' = None
    /\ email_data' = None
    /\ connection_counts' = EmptyCounter
    /\ persons_data' = <<>>
    /\ network_data' = NoNetwork
    /\ summary_data' = NoKeys
    /\ UNCHANGED analysis
    /\ UNCHANGED <<profile, sources, written>>

Next ==
    \/ LoadImageIndex
    \/ ProcessEntities
    \/ ProcessPersonsKaggle
    \/ ProcessFlights
    \/ ProcessRelationships
    \/ ProcessDocuments
    \/ ProcessEmails
    \/ CountConnections
    \/ MergePersons
    \/ BuildNetwork
    \/ GenerateSummary
    \/ Export

NextRerun == Next \/ RunAgain

Init == \E p \in Profiles : InitFor(p)

Spec == Init /\ [][Next]_vars

InitCount == InitFor("count")
SpecCount == InitCount /\ [][Next]_vars

InitMerge == InitFor("merge")
SpecMerge == InitMerge /\ [][Next]_vars

InitNet == InitFor("net")
SpecNet == InitNet /\ [][Next]_vars

InitCaps == InitFor("caps")
SpecCaps == InitCaps /\ [][Next]_vars

InitParse == InitFor("parse")
SpecParse == InitParse /\ [][Next]_vars

InitDocs == InitFor("docs")
SpecDocs == InitDocs /\ [][Next]_vars

InitFiles == InitFor("files")
SpecFiles == InitFiles /\ [][Next]_vars
SpecRerun == InitFiles /\ [][NextRerun]_vars

InitOrder == InitFor("order")
SpecOrder == InitOrder /\ [][Next]_vars

InitKeep == InitFor("keep")
SpecKeep == InitKeep /\ [][Next]_vars

---------------------------------------------------------------------------
(* analyze_documents.py: main()                                            *)

\* The folders of documents: empty, one image beside a text file, three
\* images, and six images, more than one batch.
DocsDirs ==
    {{}, {"a.jpg", "notes.txt"}, {"b.png", "c.JPG", "d.jpeg"},
     {"a.jpg", "b.png", "c.JPG", "d.jpeg", "e.jpg", "f.jpg", "notes.txt"}}

\* What one pass of the loop body meets: the image cannot be read; the
\* answer is a dict; the answer cannot be parsed or is no dict; the request
\* raises (429 or another error); Ctrl+C after the request; Ctrl+C between
\* current_batch.append and processed_files.add.
Outcomes ==
    {"unreadable", "dict", "unparsable", "not_dict", "rate_limit", "error",
     "interrupted", "interrupted_appended"}

Pipeline == <<profile, sources, pc, run, locals, written, first_written>>

\* The process ended: its variables are gone.
RunEnds ==
    /\ apc' = "idle"
    /\ processed_files' = {}
    /\ to_process' = <<>>
    /\ loop_i' = 0
    /\ current_batch' = <<>>
    /\ rate_limited' = FALSE

\* lines 126-195: no folder, no API key, no model list or no model with
\* quota: main() returns before it reads the state.
SetupFails ==
    /\ apc = "idle"
    /\ runs < MaxRuns
    /\ runs' = runs + 1
    /\ requests' = <<>>
    /\ exit_log' = "setup failed"
    /\ RunEnds
    /\ UNCHANGED <<docs_dir, state_file, results_csv>>
    /\ UNCHANGED Pipeline

\* lines 197-216: the state is loaded and the images to process are listed;
\* main() returns when there is none.
StartRun ==
    /\ apc = "idle"
    /\ runs < MaxRuns
    /\ runs' = runs + 1
    /\ requests' = <<>>
    /\ LET state == load_state(state_file)
           remaining == Remaining(AllImages(docs_dir), state.processed_files)
       IN  IF remaining = <<>>
           THEN /\ exit_log' = "all processed"
                /\ RunEnds
           ELSE /\ exit_log' = ""
                /\ apc' = "loop"
                /\ processed_files' = state.processed_files
                /\ to_process' = remaining
                /\ loop_i' = 0
                /\ current_batch' = <<>>
                /\ rate_limited' = FALSE
    /\ UNCHANGED <<docs_dir, state_file, results_csv>>
    /\ UNCHANGED Pipeline

\* lines 227-295: one pass of the loop body, for the next image.
Analyze ==
    /\ apc = "loop"
    /\ loop_i < Len(to_process)
    /\ loop_i' = loop_i + 1
    /\ \E outcome \in Outcomes :
          LET img == to_process[loop_i + 1]
              batch == Append(current_batch, img)
              done == processed_files \cup {img}
          IN  /\ requests' = IF outcome = "unreadable" THEN requests
                              ELSE Append(requests, img)
              /\ rate_limited' = (outcome = "rate_limit")
              /\ IF outcome = "dict"
                 THEN /\ processed_files' = done
                      /\ IF Len(batch) >= batch_size
                         THEN /\ results_csv' = save_results(results_csv, batch)
                              /\ state_file' = save_state(done, img)
                              /\ current_batch' = <<>>
                         ELSE /\ current_batch' = batch
                              /\ UNCHANGED <<results_csv, state_file>>
                      /\ apc' = "loop"
                 ELSE IF outcome = "interrupted_appended"
                 THEN /\ current_batch' = batch
                      /\ apc' = "finally"
                      /\ UNCHANGED <<processed_files, results_csv, state_file>>
                 ELSE /\ apc' = IF outcome = "interrupted" THEN "finally" ELSE "loop"
                      /\ UNCHANGED <<processed_files, current_batch, results_csv,
                                     state_file>>
    /\ UNCHANGED <<docs_dir, runs, to_process, exit_log>>
    /\ UNCHANGED Pipeline

\* line 297: Ctrl+C between two passes of the loop.
Interrupt ==
    /\ apc = "loop"
    /\ apc' = "finally"
    /\ UNCHANGED <<docs_dir, state_file, results_csv, runs, processed_files,
                   to_process, loop_i, current_batch, requests, exit_log,
                   rate_limited>>
    /\ UNCHANGED Pipeline

\* lines 303-306: the last_file of the final save_state.
LastFile ==
    IF loop_i >= 1 THEN to_process[loop_i] ELSE to_process[Len(to_process)]

\* lines 300-307: the loop ended or was interrupted.
Finally ==
    /\ \/ apc = "finally"
       \/ apc = "loop" /\ loop_i = Len(to_process)
    /\ IF current_batch # <<>>
       THEN /\ results_csv' = save_results(results_csv, current_batch)
            /\ state_file' = save_state(processed_files, LastFile)
       ELSE UNCHANGED <<results_csv, state_file>>
    /\ exit_log' = "paused"
    /\ RunEnds
    /\ UNCHANGED <<docs_dir, runs, requests>>
    /\ UNCHANGED Pipeline

NextAnalysis ==
    \/ SetupFails
    \/ StartRun
    \/ Analyze
    \/ Interrupt
    \/ Finally

\* The script was never run: the state file is absent or unreadable.
InitAnalysis ==
    /\ profile = "analysis"
    /\ sources = [image_index |-> <<>>, entities |-> None, kaggle |-> None,
                  flights |-> None, relationships |-> None,
                  documents |-> NoDocuments, emails |-> None]
    /\ pc = "load"
    /\ run = 1
    /\ Fresh
    /\ written = NoFiles
    /\ first_written = NoFiles
    /\ docs_dir \in DocsDirs
    /\ state_file \in {AbsentFile, CorruptFile}
    /\ results_csv = <<>>
    /\ apc = "idle"
    /\ runs = 0
    /\ processed_files = {}
    /\ to_process = <<>>
    /\ loop_i = 0
    /\ current_batch = <<>>
    /\ requests = <<>>
    /\ exit_log = ""
    /\ rate_limited = FALSE

SpecAnalysis == InitAnalysis /\ [][NextAnalysis]_vars

Stages ==
    <<"load", "entities", "kaggle", "flights", "relationships", "documents",
      "emails", "count", "merge", "network", "summary", "export", "done">>

\* The positions of main() after the stage: the call of that stage returned.
After(stage) ==
    {Stages[i] : i \in {j \in 1..Len(Stages) :
                          \E k \in 1..(j - 1) : Stages[k] = stage}}

\* After each call the results are of the shapes the next calls rely on.
TypeOK ==
    /\ profile \in Profiles
    /\ pc \in {Stages[i] : i \in 1..Len(Stages)} \cup {"crashed"}
    /\ run \in {1, 2}
    /\ entities_data.present \in BOOLEAN
    /\ kaggle_data.present \in BOOLEAN
    /\ flight_data.present \in BOOLEAN
    /\ relationships_data.present \in BOOLEAN
    /\ \A n \in DOMAIN connection_counts : connection_counts[n] \in Nat
    /\ \A i \in 1..Len(persons_data) : persons_data[i].name # ""

---------------------------------------------------------------------------
(* Properties.                                                             *)

AfterCount == pc \in After("count")
AfterMerge == pc \in After("merge")

\* The edges handed to count_connections_from_relationships.
Edges == relationships_data.links

\* Names whose count is looked at: every endpoint, and names of no edge.
CountedNames == relationships_data.nodes \cup {"Ann", "Bob", "Eve", "Zed"}

IncidentEdges(n) ==
    Cardinality({i \in 1..Len(Edges) : Edges[i].source = n \/ Edges[i].target = n})

EndpointsAt(n) ==
    Cardinality({i \in 1..Len(Edges) : Edges[i].source = n})
    + Cardinality({i \in 1..Len(Edges) : Edges[i].target = n})

Primary == entities_data.rows
Supplementary == kaggle_before.rows

NamesOf(list) == {list[i].name : i \in 1..Len(list)}
LowerNamesOf(list) == {Lower(list[i].name) : i \in 1..Len(list)}

\* No two entries of the list have names equal up to case.
NoDuplicates(list) ==
    \A i, j \in 1..Len(list) : i # j => Lower(list[i].name) # Lower(list[j].name)

\* C2 as stated: the names of the merged list are names(P) union names(S),
\* and no two merged entries have names equal up to case.
C2_UnionNoDuplicates ==
    AfterMerge =>
        /\ NamesOf(persons_data) = NamesOf(Primary) \cup NamesOf(Supplementary)
        /\ NoDuplicates(persons_data)

\* C2 amended: compared without case, the names of the merged list are those
\* of names(P) union names(S) (a supplementary name that matches a primary
\* name appears in the primary's spelling); and when neither P nor S holds
\* two records with names equal up to case, neither does the merged list.
C2_UnionUpToCase ==
    AfterMerge =>
        /\ LowerNamesOf(persons_data) =
               LowerNamesOf(Primary) \cup LowerNamesOf(Supplementary)
        /\ NamesOf(persons_data) =
               NamesOf(Primary) \cup
               {n \in NamesOf(Supplementary) : Lower(n) \notin LowerNamesOf(Primary)}
        /\ (NoDuplicates(Primary) /\ NoDuplicates(Supplementary))
               => NoDuplicates(persons_data)

\* "Ann" of the primary source met "ann" of the supplementary one, and "Bob"
\* came from the supplementary source alone.
C2_Witness ==
    /\ pc = "network"
    /\ NamesOf(Primary) = {"Ann"}
    /\ NamesOf(Supplementary) = {"ann", "Bob"}
    /\ NamesOf(persons_data) = {"Ann", "Bob"}
    /\ Len(persons_data) = 2

\* Every record of either source with the entry's name has at most the
\* entry's flights and documents.
NotLowered(entry, list) ==
    \A i \in 1..Len(list) :
        Lower(list[i].name) = Lower(entry.name) =>
            /\ entry.flights >= list[i].flights
            /\ entry.documents >= list[i].documents

OneEntryWithMax(p, s) ==
    LET entries == {i \in 1..Len(persons_data) :
                       Lower(persons_data[i].name) = Lower(p.name)}
    IN  /\ Cardinality(entries) = 1
        /\ \A i \in entries :
              /\ persons_data[i].flights = Max(p.flights, s.flights)
              /\ persons_data[i].documents = Max(p.documents, s.documents)

MatchedPairs ==
    {<<i, j>> \in (1..Len(Primary)) \X (1..Len(Supplementary)) :
        Lower(Primary[i].name) = Lower(Supplementary[j].name)}

\* C4 as stated: for a primary and a supplementary record with names equal
\* up to case there is exactly one merged entry of that name, and its flights
\* and documents are the larger of the two sources' values.
C4_OneEntryMax ==
    AfterMerge =>
        \A m \in MatchedPairs : OneEntryWithMax(Primary[m[1]], Supplementary[m[2]])

\* C4 amended: the same, when neither P nor S holds two records with names
\* equal up to case.
C4_OneEntryMaxNoDuplicates ==
    (AfterMerge /\ NoDuplicates(Primary) /\ NoDuplicates(Supplementary)) =>
        \A m \in MatchedPairs : OneEntryWithMax(Primary[m[1]], Supplementary[m[2]])

\* Primary "Bob" and "ann", supplementary "Ann" with more flights than "ann":
\* one entry "ann" with the supplementary flights, and "Bob" unmatched.
C4_Witness ==
    /\ pc = "network"
    /\ NamesOf(Primary) = {"ann", "Bob"}
    /\ Len(Primary) = 2
    /\ Len(Supplementary) = 1
    /\ Supplementary[1].name = "Ann" /\ Supplementary[1].flights = 1
    /\ \E i \in 1..2 : Primary[i].name = "ann" /\ Primary[i].flights = 0
    /\ Len(persons_data) = 2
    /\ \E i \in 1..2 : persons_data[i].name = "ann" /\ persons_data[i].flights = 1

\* C5 as stated: in every case the merged list is in descending order of
\* (flights, documents): no entry has a larger key than the one before it.
C5_SortedByFlightsDocuments ==
    AfterMerge =>
        \A i \in 1..(Len(persons_data) - 1) :
            ~TupleGt(MergedKey(persons_data[i + 1]), MergedKey(persons_data[i]))

\* C6: every merged entry has connections max(C[name], connections of a
\* supplementary record of the same name up to case), and C[name] when the
\* supplementary source has no such record; a missing count is 0.
C6_Connections ==
    AfterMerge =>
        \A i \in 1..Len(persons_data) :
            LET entry == persons_data[i]
                count == CountOf(connection_counts, entry.name)
                same == {j \in 1..Len(Supplementary) :
                            Lower(Supplementary[j].name) = Lower(entry.name)}
            IN  IF same = {}
                THEN entry.connections = count
                ELSE \E j \in same :
                        entry.connections = Max(count, Supplementary[j].connections)

\* Both sources and two edges at "Ann": the matched "Ann" has the edge count
\* 3 above its supplementary 1, and the supplementary-only "Bob" keeps its 1
\* above the count 0.
C6_Witness ==
    /\ pc = "network"
    /\ Len(Primary) = 1 /\ Primary[1].name = "Ann"
    /\ Len(Supplementary) = 2
    /\ CountOf(connection_counts, "Ann") = 3
    /\ CountOf(connection_counts, "Bob") = 0
    /\ \E j \in 1..2 : Supplementary[j].name = "ann" /\ Supplementary[j].connections = 1
    /\ \E j \in 1..2 : Supplementary[j].name = "Bob" /\ Supplementary[j].connections = 1
    /\ \E i \in 1..Len(persons_data) :
          persons_data[i].name = "Ann" /\ persons_data[i].connections = 3
    /\ \E i \in 1..Len(persons_data) :
          persons_data[i].name = "Bob" /\ persons_data[i].connections = 1

\* The graph build_network returned.
Nodes == network_data.nodes
Links == network_data.links

\* A node made from a person carries the person's attributes; a stub node
\* has only id, group and the three counts.
IsStub(node) == "in_black_book" \notin DOMAIN node
PersonNodes == {i \in 1..Len(Nodes) : ~IsStub(Nodes[i])}

\* C7 as stated: given more than 300 persons, the nodes made from persons
\* are exactly 300.
C7_Exactly300 ==
    (pc = "done" /\ Len(persons_data) > PersonNodeCap) =>
        Cardinality(PersonNodes) = PersonNodeCap

\* C7 amended: given more than 300 persons, the nodes made from persons are
\* one per distinct name among the first 300 persons: at most 300, and
\* exactly 300 when those 300 names are pairwise different.
C7_OnePerNameOfFirst300 ==
    (pc = "done" /\ Len(persons_data) > PersonNodeCap) =>
        LET first == {persons_data[i].name : i \in 1..PersonNodeCap}
        IN  /\ {Nodes[i].id : i \in PersonNodes} = first
            /\ Cardinality(PersonNodes) = Cardinality(first)
            /\ Cardinality(PersonNodes) <= PersonNodeCap
            /\ NoDuplicates(SubSeq(persons_data, 1, PersonNodeCap))
                 => Cardinality(PersonNodes) = PersonNodeCap

\* 301 persons of different names gave 300 person nodes, and the edges added
\* the stub node "Eve".
C7_Witness ==
    /\ pc = "done"
    /\ Len(persons_data) = PersonNodeCap + 1
    /\ NoDuplicates(persons_data)
    /\ Cardinality(PersonNodes) = PersonNodeCap
    /\ \E i \in 1..Len(Nodes) : IsStub(Nodes[i]) /\ Nodes[i].id = "Eve"

\* C8: with relationship data the links are the first min(1000, n)
\* relationship edges in their order, so at most 1000; without it they are
\* co-passenger links, at most 500.
C8_LinkCaps ==
    pc = "done" =>
        IF relationships_data.present
        THEN /\ Len(Links) <= RelLinkCap
             /\ Len(Links) = Min(RelLinkCap, Len(Edges))
             /\ \A i \in 1..Len(Links) : Links[i] = Edges[i]
        ELSE /\ Len(Links) <= CoOccurrenceCap
             /\ \A i \in 1..Len(Links) : Links[i].type = "co-passenger"

\* A flight of BigPax passengers, more than 500 pairs, gave 500 links.
C8_Witness ==
    /\ pc = "done"
    /\ ~relationships_data.present
    /\ \E i \in 1..Len(flight_data.rows) : Len(flight_data.rows[i].passengers) = BigPax
    /\ (BigPax * (BigPax - 1)) \div 2 > CoOccurrenceCap
    /\ Len(Links) = CoOccurrenceCap

\* The names of the persons that build_network makes nodes of.
BaseNames == {persons_data[i].name : i \in 1..Min(PersonNodeCap, Len(persons_data))}

\* The endpoint is a node; when it is no person it is a stub of the group.
EndpointOk(id, group) ==
    /\ HasNode(Nodes, id)
    /\ id \notin BaseNames =>
          \A i \in 1..Len(Nodes) :
              Nodes[i].id = id =>
                  /\ IsStub(Nodes[i])
                  /\ Nodes[i].group = group
                  /\ Nodes[i].flights = 0
                  /\ Nodes[i].documents = 0
                  /\ Nodes[i].connections = 0

\* C9: the source and the target of every link are ids of nodes; an endpoint
\* that is no person node is a stub node with counts 0 and the group
\* "Relationship" (explicit edges) or "Flight Passenger" (co-occurrence).
C9_EndpointsAreNodes ==
    pc = "done" =>
        /\ \A i, j \in 1..Len(Nodes) : Nodes[i].id = Nodes[j].id => i = j
        /\ \A i \in 1..Len(Links) :
              LET group == IF relationships_data.present
                           THEN "Relationship" ELSE "Flight Passenger"
              IN  /\ EndpointOk(Links[i].source, group)
                  /\ EndpointOk(Links[i].target, group)

\* Without relationship data, a co-passenger link joins the person "Ann" and
\* "Dee", who is no person and has a "Flight Passenger" stub node.
C9_Witness ==
    /\ pc = "done"
    /\ ~relationships_data.present
    /\ "Ann" \in BaseNames /\ "Dee" \notin BaseNames
    /\ \E i \in 1..Len(Links) : Links[i].source = "Ann" /\ Links[i].target = "Dee"
    /\ \E k \in 1..Len(Nodes) : ~IsStub(Nodes[k]) /\ Nodes[k].id = "Ann"
    /\ \E k \in 1..Len(Nodes) :
          /\ IsStub(Nodes[k]) /\ Nodes[k].id = "Dee"
          /\ Nodes[k].group = "Flight Passenger"

\* The flights hold two different passengers on one flight.
FlightsHavePair ==
    /\ Truthy(flight_data)
    /\ \E i \in 1..Len(flight_data.rows) :
          \E pair \in {FlightPairs(flight_data.rows[i])[k] :
                          k \in 1..Len(FlightPairs(flight_data.rows[i]))} :
              pair[1] # pair[2]

\* C10: when there is at least one explicit relationship edge, the graph has
\* no co-passenger link and no "Flight Passenger" stub node: its links are
\* relationship edges only.
C10_NeverBoth ==
    (pc = "done" /\ Len(Edges) >= 1) =>
        /\ \A i \in 1..Len(Links) : Links[i].type # "co-passenger"
        /\ \A i \in 1..Len(Links) : \E j \in 1..Len(Edges) : Links[i] = Edges[j]
        /\ \A i \in 1..Len(Nodes) :
              ~(IsStub(Nodes[i]) /\ Nodes[i].group = "Flight Passenger")

\* An explicit edge and a flight with the passengers "Ann" and "Dee": the
\* graph has the edge alone and no node "Dee".
C10_Witness ==
    /\ pc = "done"
    /\ Len(Edges) = 1
    /\ FlightsHavePair
    /\ \E i \in 1..Len(flight_data.rows) :
          <<"Ann", "Dee">> \in {FlightPairs(flight_data.rows[i])[k] :
                                   k \in 1..Len(FlightPairs(flight_data.rows[i]))}
    /\ Links = Edges
    /\ ~HasNode(Nodes, "Dee")

\* The co-passenger link of two passengers.
CoLinked(pair) ==
    \E i \in 1..Len(Links) :
        /\ Links[i].type = "co-passenger"
        /\ <<Links[i].source, Links[i].target>> = SortedPair(pair[1], pair[2])

\* C11 as stated: when the run has no relationship edge (no relationships
\* file, or a file without a valid edge) and a flight has two different
\* valid passengers, the links hold the co-passenger edge of every two
\* different passengers of a flight.
C11_CoOccurrenceWithoutEdges ==
    (pc = "done" /\ Edges = <<>> /\ FlightsHavePair) =>
        \A i \in 1..Len(flight_data.rows) :
            LET pairs == FlightPairs(flight_data.rows[i])
            IN  \A k \in 1..Len(pairs) : pairs[k][1] # pairs[k][2] => CoLinked(pairs[k])

\* The passenger names of flight i, as the co-occurrence loop reads them.
FlightNames(i) ==
    LET pieces == Get(flight_data.rows[i], "passengers", <<>>)
        names == IF PaxTruthy(pieces) THEN PaxNames(pieces) ELSE <<>>
    IN  {names[k] : k \in 1..Len(names)}

FlightsWithBoth(a, b) ==
    {i \in 1..Len(flight_data.rows) : a \in FlightNames(i) /\ b \in FlightNames(i)}

CoLinks == SelectSeq(Links, LAMBDA l : l.type = "co-passenger")

\* C12 as stated: every co-passenger link joins two different passenger
\* names, in title case and longer than two characters, and its weight is the
\* number of flights whose passenger list holds both names.
C12_WeightIsFlightCount ==
    pc = "done" =>
        \A i \in 1..Len(CoLinks) :
            LET l == CoLinks[i]
            IN  /\ l.source # l.target
                /\ Title(l.source) = l.source /\ Title(l.target) = l.target
                /\ l.source \notin ShortStrings /\ l.target \notin ShortStrings
                /\ l.weight = Cardinality(FlightsWithBoth(l.source, l.target))

\* The other properties of a co-passenger link hold: two different names in
\* title case, longer than two characters, on at least one common flight.
CoLinksJoinPassengers ==
    pc = "done" =>
        \A i \in 1..Len(CoLinks) :
            LET l == CoLinks[i]
            IN  /\ l.source # l.target
                /\ Title(l.source) = l.source /\ Title(l.target) = l.target
                /\ l.source \notin ShortStrings /\ l.target \notin ShortStrings
                /\ l.weight >= Cardinality(FlightsWithBoth(l.source, l.target))
                /\ FlightsWithBoth(l.source, l.target) # {}

\* The names of the files in dashboard/data.
WrittenFiles == DOMAIN written

AllOutputFiles == {OutputFiles[i] : i \in 1..Len(OutputFiles)}

\* C13 as stated: a producer that fails with an unexpected error stops
\* neither the producers after it nor the export: every run ends with the
\* five output files written.
C13_FailureKeepsOutputs ==
    /\ pc # "crashed"
    /\ pc = "done" => WrittenFiles = AllOutputFiles

\* The sources that are absent.
NoEntities == ~sources.entities.present
NoKaggle == ~sources.kaggle.present
NoFlights == ~sources.flights.present
NoDocumentFiles == sources.documents = NoDocuments

\* A JSON object with the keys of an empty-but-valid network and summary.
WellFormedNetwork(net) ==
    /\ DOMAIN net = {"nodes", "links"}
    /\ net.nodes \in Seq({net.nodes[i] : i \in 1..Len(net.nodes)})
    /\ net.links \in Seq({net.links[i] : i \in 1..Len(net.links)})

WellFormedSummary(summary) ==
    /\ {"total_persons", "total_flights", "total_documents", "total_emails",
         "total_images", "data_sources"} \subseteq DOMAIN summary
    /\ summary.total_persons \in Nat /\ summary.total_flights \in Nat
    /\ summary.total_documents \in Nat /\ summary.total_emails \in Nat

\* C14: whichever sources are absent, no statement of the run fails (the
\* run is at a statement of main() or has finished), and the finished run has
\* written the five
\* output files: the persons, flights and documents files of absent sources
\* hold an empty array, network.json holds an object with the arrays nodes
\* and links, and summary.json holds the totals.
C14_AbsentSources ==
    /\ pc # "crashed"
    /\ pc \in {Stages[i] : i \in 1..Len(Stages)}
    /\ pc = "done" =>
          /\ WrittenFiles = AllOutputFiles
          /\ (NoEntities /\ NoKaggle) => written["persons_of_interest.json"] = <<>>
          /\ NoFlights => written["flight_logs.json"] = <<>>
          /\ NoDocumentFiles => written["documents.json"] = <<>>
          /\ WellFormedNetwork(written["network.json"])
          /\ WellFormedSummary(written["summary.json"])
          /\ (NoFlights /\ ~sources.relationships.present) =>
                written["network.json"].links = <<>>

\* A run without any source file has written five files: three empty
\* arrays, a network without nodes and a summary of zeros.
C14_Witness ==
    /\ pc = "done"
    /\ NoEntities /\ NoKaggle /\ NoFlights /\ NoDocumentFiles
    /\ ~sources.relationships.present /\ ~sources.emails.present
    /\ sources.image_index = <<>>
    /\ WrittenFiles = AllOutputFiles
    /\ written["persons_of_interest.json"] = <<>>
    /\ written["flight_logs.json"] = <<>>
    /\ written["documents.json"] = <<>>
    /\ written["network.json"] = [nodes |-> <<>>, links |-> <<>>]
    /\ written["summary.json"].total_persons = 0
    /\ "persons_stats" \notin DOMAIN written["summary.json"]

CountFields == {"flights", "documents", "emails", "connections"}

CountsNatural(person) == \A f \in CountFields \cap DOMAIN person : person[f] \in Nat

\* C16 as stated: every count (flights, documents, emails, connections) of
\* every person record of entities.csv, of the Kaggle file and of the merged
\* list is an integer that is not negative, whatever the raw fields hold.
C16_CountsNeverNegative ==
    /\ \A i \in 1..Len(entities_data.rows) : CountsNatural(entities_data.rows[i])
    /\ \A i \in 1..Len(kaggle_data.rows) : CountsNatural(kaggle_data.rows[i])
    /\ \A i \in 1..Len(persons_data) : CountsNatural(persons_data[i])

\* The counts are integers, and a field that int() rejects gives 0.
CountsAreIntegers ==
    /\ \A i \in 1..Len(entities_data.rows) :
          \A f \in CountFields \cap DOMAIN entities_data.rows[i] :
              entities_data.rows[i][f] \in Int
    /\ \A i \in 1..Len(kaggle_data.rows) :
          \A f \in CountFields \cap DOMAIN kaggle_data.rows[i] :
              kaggle_data.rows[i][f] \in Int
    /\ \A i \in 1..Len(persons_data) :
          \A f \in CountFields \cap DOMAIN persons_data[i] : persons_data[i][f] \in Int

\* C17 as stated: every edge of process_relationships has an integer weight
\* of at least 1, whatever the raw strength is.
C17_WeightAtLeastOne ==
    \A i \in 1..Len(Edges) : Edges[i].weight \in Nat /\ Edges[i].weight >= 1

\* The weights are integers, and a missing or unparsable strength gives 1.
WeightsAreIntegers ==
    /\ \A i \in 1..Len(Edges) : Edges[i].weight \in Int
    /\ relationships_data.present =>
          \A i \in 1..Len(sources.relationships.rows) :
              sources.relationships.rows[i].strength \in {"", "x"} =>
                  \E k \in 1..Len(Edges) : Edges[k].weight = 1

\* The index that was loaded, as the keys and lists of image_index.json.
HasKey(name) == \E i \in 1..Len(image_index) : image_index[i].key = name

ImagesOf(name) == image_index[CHOOSE i \in 1..Len(image_index) : image_index[i].key = name].images

\* The tokens of length > 2 among the first two tokens of the name.
LongTokens(name) ==
    LET parts == Split(name)
    IN  {parts[i] : i \in 1..Min(2, Len(parts))} \ ShortStrings

\* The positions of the keys that contain all these tokens.
TokenKeys(name) ==
    {i \in 1..Len(image_index) :
        \A part \in LongTokens(name) : Contains(image_index[i].key, part)}

FirstTokenKeyImages(name) ==
    image_index[CHOOSE i \in TokenKeys(name) : \A j \in TokenKeys(name) : i <= j].images

\* The lookup as the claim states it.
StatedLookup(name) ==
    IF HasKey(Title(name)) THEN ImagesOf(Title(name))
    ELSE IF TokenKeys(Title(name)) # {} THEN FirstTokenKeyImages(Title(name))
    ELSE <<>>

\* C18 as stated: every person record has the images of the key equal to its
\* name in title case when the index has that key, otherwise those of the
\* first key that contains every token longer than two characters among the
\* first two tokens of the name, otherwise none.
C18_LookupAsStated ==
    /\ \A i \in 1..Len(entities_data.rows) :
          entities_data.rows[i].images = StatedLookup(entities_data.rows[i].name)
    /\ \A i \in 1..Len(kaggle_data.rows) :
          kaggle_data.rows[i].images = StatedLookup(kaggle_data.rows[i].name)

\* The lookup of entities.csv: the exact key when its list is not empty,
\* otherwise the token fallback for a name of at least two tokens.
EntityLookup(name) ==
    IF HasKey(Title(name)) /\ ImagesOf(Title(name)) # <<>> THEN ImagesOf(Title(name))
    ELSE IF Len(Split(Title(name))) >= 2 /\ TokenKeys(Title(name)) # {}
         THEN FirstTokenKeyImages(Title(name))
    ELSE <<>>

\* The lookup of the Kaggle file: the exact key only.
KaggleLookup(name) == IF HasKey(Title(name)) THEN ImagesOf(Title(name)) ELSE <<>>

\* C18, amended: a record of entities.csv has the list of the key equal to
\* its name in title case when that list is not empty; otherwise, when the
\* name has at least two tokens, the list of the first key that contains
\* every token longer than two characters among its first two tokens;
\* otherwise none.  A record of the Kaggle file has the list of the key
\* equal to its name in title case, or none: no fallback.
C18_Lookup ==
    /\ \A i \in 1..Len(entities_data.rows) :
          entities_data.rows[i].images = EntityLookup(entities_data.rows[i].name)
    /\ \A i \in 1..Len(kaggle_data.rows) :
          kaggle_data.rows[i].images = KaggleLookup(kaggle_data.rows[i].name)

\* "dee eve" has no key of its own with images and got those of "Dee A. Eve"
\* by the fallback; "Dee Eve" of the Kaggle file got none.
C18_Witness ==
    /\ pc \in After("kaggle")
    /\ ~HasKey("Dee Eve") \/ ImagesOf("Dee Eve") = <<>>
    /\ HasKey("Dee A. Eve")
    /\ \E i \in 1..Len(entities_data.rows) :
          /\ Title(entities_data.rows[i].name) = "Dee Eve"
          /\ entities_data.rows[i].images = <<Image("a.jpg")>>
    /\ \E i \in 1..Len(kaggle_data.rows) :
          /\ kaggle_data.rows[i].name = "Dee Eve"
          /\ kaggle_data.rows[i].images = <<>>

\* The importance scores of the documents that were exported.
Scores == [i \in 1..Len(document_data.rows) |-> document_data.rows[i].importance_score]

\* The lower ends of the buckets around the scores of the inputs.
BucketLows == {10 * k : k \in 0..12} \cup {0 - 10 * k : k \in 1..3}

\* The one lower end L with L <= s <= L + 9.
LowOf(s) == CHOOSE l \in BucketLows : l <= s /\ s <= l + 9

Label(l) == ToString(l) \o "-" \o ToString(l + 9)

Histogram == summary_data.document_stats.importance_distribution

RECURSIVE SumOver(_, _)
SumOver(f, keys) ==
    IF keys = {} THEN 0
    ELSE LET k == CHOOSE x \in keys : TRUE IN f[k] + SumOver(f, keys \ {k})

\* C19: once the summary is generated from a list of documents, every
\* document of score s is counted in the bucket "L-H" with L <= s <= L + 9,
\* L a multiple of ten and H = L + 9, and in no other: the count of a bucket
\* is the number of documents whose score lies in it, no other bucket
\* exists, and the counts sum to the number of documents.
C19_ImportanceBuckets ==
    (pc \in After("summary") /\ Truthy(document_data)) =>
        /\ \A i \in 1..Len(Scores) :
              /\ \E l \in BucketLows : l <= Scores[i] /\ Scores[i] <= l + 9
              /\ Label(LowOf(Scores[i])) \in DOMAIN Histogram
              /\ Histogram[Label(LowOf(Scores[i]))] =
                    Cardinality({j \in 1..Len(Scores) : LowOf(Scores[j]) = LowOf(Scores[i])})
        /\ DOMAIN Histogram = {Label(LowOf(Scores[i])) : i \in 1..Len(Scores)}
        /\ SumOver(Histogram, DOMAIN Histogram) = Len(Scores)

\* Documents of scores 47 and -5 were summarised: one in "40-49", one in
\* "-10--1".
C19_Witness ==
    /\ pc \in After("summary")
    /\ \E i \in 1..Len(Scores) : Scores[i] = 47
    /\ \E i \in 1..Len(Scores) : Scores[i] = -5
    /\ Histogram = ("40-49" :> 1) @@ ("-10--1" :> 1)

\* The file names recorded in the saved state.
Recorded(file) == IF file.kind = "saved" THEN file.processed_files ELSE {}

\* A step that sends an image for analysis.
Sends(img) == requests' = Append(requests, img)

\* One step of the script: the recorded names are kept, an image that is
\* sent is not recorded, and a run that finds no image to process ends
\* without a request.
C20_Step ==
    /\ Recorded(state_file) \subseteq Recorded(state_file')
    /\ \A img \in docs_dir : Sends(img) => img \notin Recorded(state_file)
    /\ Len(requests') > Len(requests) => \E img \in docs_dir : Sends(img)
    /\ (runs' # runs /\ \A f \in docs_dir : IsImage(f) => f \in Recorded(state_file)) =>
          (apc' = "idle" /\ requests' = <<>>)

\* C20: a file name recorded in processed_files of the saved state stays
\* recorded, and no step of any run sends an image whose name is recorded:
\* a run analyses only images absent from the saved set, and a run that
\* finds no such image sends no request.
C20_ProcessedNeverSentAgain == [][C20_Step]_vars

\* The second run, after a first run that recorded "a.jpg" to "e.jpg" at the
\* checkpoint: it has sent "f.jpg" only.
C20_Witness ==
    /\ runs = 2
    /\ apc = "loop"
    /\ docs_dir = {"a.jpg", "b.png", "c.JPG", "d.jpeg", "e.jpg", "f.jpg", "notes.txt"}
    /\ Recorded(state_file) = {"a.jpg", "b.png", "c.JPG", "d.jpeg", "e.jpg"}
    /\ to_process = <<"f.jpg">>
    /\ requests = <<"f.jpg">>

\* The second run of a folder whose images are all recorded ended at once.
AllProcessedRun ==
    /\ apc = "idle"
    /\ exit_log = "all processed"
    /\ Recorded(state_file) = {"b.png", "c.JPG", "d.jpeg"}
    /\ requests = <<>>

\* C21 as stated: after a request that failed with a 429 error, the next
\* request of the run is for the same image.
C21_RateLimitRetriesSameImage ==
    [][(rate_limited /\ Len(requests') > Len(requests)) =>
          requests'[Len(requests')] = requests[Len(requests)]]_vars

\* After a 429 error the loop takes the next image: a request follows only
\* for the image after the one that failed, and the failed image is not
\* requested again in the run.
NoRetryAfterRateLimit ==
    [][(rate_limited /\ Len(requests') > Len(requests)) =>
          /\ loop_i >= 1
          /\ requests[Len(requests)] = to_process[loop_i]
          /\ requests'[Len(requests')] = to_process[loop_i + 1]
          /\ \A k \in 1..Len(requests) : requests[k] # requests'[Len(requests')]]_vars

\* Both lists were given to merge_persons and neither was empty.
BothPresent == Truthy(entities_data) /\ Truthy(kaggle_before)

\* The supplementary records of the name, letter case apart.
MatchesOf(e) ==
    {k \in {kaggle_before.rows[j] : j \in 1..Len(kaggle_before.rows)} :
        Lower(k.name) = Lower(e.name)}

\* The entry m is the primary record e enriched as the claim says.
EnrichedAs(m, e) ==
    /\ "slug" \in DOMAIN m
    /\ m.name = e.name
    /\ IF MatchesOf(e) # {}
       THEN \E k \in MatchesOf(e) :
               /\ m.in_black_book = k.in_black_book
               /\ m.nationality = k.nationality
               /\ m.category = k.category
               /\ m.images = IF e.images # <<>> THEN e.images ELSE k.images
       ELSE /\ m.in_black_book = FALSE
            /\ m.nationality = "Unknown"
            /\ m.category = e.entity_type
            /\ m.images = e.images

PreSort ==
    LET P == entities_data.rows
        S == kaggle_before.rows
        C == connection_counts
        seen == {Lower(P[i].name) : i \in 1..Len(P)}
    IN  IF ~Truthy(kaggle_before) THEN MergeEntitiesAlone(P, C)
        ELSE
        [i \in 1..Len(P) |-> MergedEntry(P[i], KaggleMatch(S, Lower(P[i].name)), C)]
        \o [i \in 1..Len(SelectSeq(S, LAMBDA p : Lower(p.name) \notin seen)) |->
               RaiseConnections(SelectSeq(S, LAMBDA p : Lower(p.name) \notin seen)[i], C)]

\* The entries of the list with the key, in the order of the list.
WithKey(list, key) == SelectSeq(list, LAMBDA p : MergedKey(p) = key)

\* C23: the entries of the merged list with equal (flights, documents) are
\* in the order in which they were inserted before the sort: primary records
\* in primary order, then supplementary-only records in supplementary order.
C23_StableOrder ==
    pc \in After("merge") =>
        /\ Len(persons_data) = Len(PreSort)
        /\ \A i \in 1..Len(PreSort) :
              WithKey(persons_data, MergedKey(PreSort[i])) =
                  WithKey(PreSort, MergedKey(PreSort[i]))

\* A supplementary-only record with the largest key is first, and of two
\* entries with equal keys the primary one, inserted first, comes first.
C23_Witness ==
    /\ pc \in After("merge")
    /\ BothPresent
    /\ Len(persons_data) = 3
    /\ "slug" \notin DOMAIN persons_data[1]
    /\ "slug" \in DOMAIN persons_data[2]
    /\ "slug" \notin DOMAIN persons_data[3]
    /\ TupleGt(MergedKey(persons_data[1]), MergedKey(persons_data[2]))
    /\ MergedKey(persons_data[2]) = MergedKey(persons_data[3])
    /\ PreSort[1] = persons_data[2]

\* int() accepts the field of the row.
Parses(record, field) == field \in DOMAIN record /\ record[field] \in DOMAIN IntTable

\* The value of the chain as the claim states it: the first of the two
\* fields that parses, 0 when neither does.
StatedChain(record, first, second) ==
    IF Parses(record, first) THEN IntTable[record[first]]
    ELSE IF Parses(record, second) THEN IntTable[record[second]]
    ELSE 0

\* C24 as stated: flights and documents of a supplementary record are the
\* integer of "Flights" / "Documents" when that field parses, otherwise the
\* integer of "Number of flights" / "Number of documents" when that parses,
\* and 0 only when neither parses.
C24_FallbackChain ==
    (pc \in After("kaggle") /\ sources.kaggle.present) =>
        \A i \in 1..Len(sources.kaggle.rows) :
            LET record == sources.kaggle.rows[i]
            IN  KaggleKeep(record) =>
                  \E j \in 1..Len(kaggle_data.rows) :
                      /\ kaggle_data.rows[j].name = KaggleName(record)
                      /\ kaggle_data.rows[j].flights =
                            StatedChain(record, "Flights", "Number of flights")
                      /\ kaggle_data.rows[j].documents =
                            StatedChain(record, "Documents", "Number of documents")

\* The legacy column is read when the row has no current column at all, and
\* the parsing never fails the run.
LegacyOnlyWhenAbsent ==
    (pc \in After("kaggle") /\ sources.kaggle.present) =>
        \A i \in 1..Len(sources.kaggle.rows) :
            LET record == sources.kaggle.rows[i]
            IN  (KaggleKeep(record) /\ "Flights" \notin DOMAIN record) =>
                  \E j \in 1..Len(kaggle_data.rows) :
                      /\ kaggle_data.rows[j].name = KaggleName(record)
                      /\ kaggle_data.rows[j].flights =
                            StatedChain(record, "Flights", "Number of flights")

\* The document records read from data/ that have an importance_score.
DocsWithScore ==
    LET has(r) == IsObject(r) /\ "importance_score" \in DOMAIN r
    IN  SelectSeq(AllDocumentRecords(sources.documents), has)

\* The supplementary rows that give a nationality; the primary source has
\* no such column.
RowsWithNationality ==
    LET has(r) == Strip(Get(r, "Nationality", "")) # ""
    IN  SelectSeq(sources.kaggle.rows, has)

\* The sum of the counts of a frequency table.
TableTotal(table) == SumSeq([i \in 1..Len(table) |-> table[i].count], 1)

\* C25 as stated: the summary counts no record under a default value when a
\* field is missing: the importance histogram counts only documents that have
\* an importance_score, and the nationality table only persons that have a
\* nationality.
C25_MissingFieldNoBucket ==
    pc \in After("summary") =>
        /\ "document_stats" \in DOMAIN summary_data =>
              SumOver(Histogram, DOMAIN Histogram) <= Len(DocsWithScore)
        /\ "persons_stats" \in DOMAIN summary_data =>
              TableTotal(summary_data.persons_stats.nationalities)
                  <= Len(RowsWithNationality)

\* What holds instead: every document is counted in the histogram, a
\* document without importance_score in "0-9"; a flight without a date or
\* an email without a sender is counted in no bucket of its table.
EveryDocumentCounted ==
    pc \in After("summary") =>
        /\ "document_stats" \in DOMAIN summary_data =>
              SumOver(Histogram, DOMAIN Histogram) = Len(document_data.rows)
        /\ "email_stats" \in DOMAIN summary_data =>
              TableTotal(summary_data.email_stats.top_senders)
                  = Len(FieldKeys(email_data.rows, "from"))

\* How often x is an element of the sequence.
CountIn(seq, x) == Cardinality({i \in 1..Len(seq) : seq[i] = x})

NameList(list) == [i \in 1..Len(list) |-> list[i].name]

\* The output names are the non-empty trimmed names of the rows, each as
\* often as rows have it.
KeepsNamed(source, out) ==
    /\ \A i \in 1..Len(out) : out[i] # "" /\ CountIn(out, out[i]) = CountIn(source, out[i])
    /\ \A i \in 1..Len(source) :
          source[i] # "" => CountIn(out, source[i]) = CountIn(source, source[i])

\* The (filename, headline) of the lines read and of the documents output.
SourceIdentities ==
    LET all == AllDocumentRecords(sources.documents)
    IN  [i \in 1..Len(all) |-> <<DocumentFilename(all[i]), DocumentHeadline(all[i])>>]

OutputIdentities ==
    [i \in 1..Len(document_data.rows) |->
        <<document_data.rows[i].filename, document_data.rows[i].headline>>]

\* The person records output have the non-empty trimmed names of the source
\* rows, one record per such row, and the merged list has no empty name.
PersonsKeptByName ==
    /\ (pc \in After("entities") /\ sources.entities.present) =>
          KeepsNamed([i \in 1..Len(sources.entities.rows) |->
                         EntityName(sources.entities.rows[i])],
                     NameList(entities_data.rows))
    /\ (pc \in After("kaggle") /\ sources.kaggle.present) =>
          KeepsNamed([i \in 1..Len(sources.kaggle.rows) |->
                         KaggleName(sources.kaggle.rows[i])],
                     NameList(kaggle_data.rows))
    /\ pc \in After("merge") => \A i \in 1..Len(persons_data) : persons_data[i].name # ""

\* C26 as stated: persons are kept by name, and a document whose filename
\* or whose headline is empty after trimming is dropped: every document
\* output has both.
C26_DropsEmptyIdentity ==
    /\ PersonsKeptByName
    /\ pc \in After("documents") =>
          \A i \in 1..Len(OutputIdentities) :
              OutputIdentities[i][1] # "" /\ OutputIdentities[i][2] # ""

\* C26, amended: persons are kept by name, and a document is dropped when
\* both its filename and its headline are empty after trimming, and only
\* then: the documents output are the lines that have one of the two, one
\* document per such line.
C26_DropsWhenBothEmpty ==
    /\ PersonsKeptByName
    /\ pc \in After("documents") =>
          /\ \A i \in 1..Len(OutputIdentities) :
                /\ OutputIdentities[i] # <<"", "">>
                /\ CountIn(OutputIdentities, OutputIdentities[i])
                      = CountIn(SourceIdentities, OutputIdentities[i])
          /\ \A i \in 1..Len(SourceIdentities) :
                SourceIdentities[i] # <<"", "">> =>
                    CountIn(OutputIdentities, SourceIdentities[i])
                      = CountIn(SourceIdentities, SourceIdentities[i])

\* A run that dropped a person row of each source and a document line, and
\* kept a document that has a filename and no headline.
C26_Witness ==
    /\ pc = "done"
    /\ Len(entities_data.rows) < Len(sources.entities.rows)
    /\ entities_data.rows # <<>>
    /\ Len(kaggle_data.rows) < Len(sources.kaggle.rows)
    /\ kaggle_data.rows # <<>>
    /\ \E i \in 1..Len(SourceIdentities) : SourceIdentities[i] = <<"", "">>
    /\ \E i \in 1..Len(OutputIdentities) : OutputIdentities[i] = <<"b.pdf", "">>

\* The first two tokens of the name in title case.
FirstTwoTokens(name) == Take(Split(Title(name)), 2)

\* The person's images came from the fallback: the index has no images
\* under the name in title case, and the record has images.
FromFallback(e) == IndexGet(image_index, Title(e.name)) = <<>> /\ e.images # <<>>

\* C27 as stated: a person gets images by the fallback only from an index
\* key that contains one of the first two tokens of the name in title case,
\* and a name whose first two tokens both have length <= 2 gets none.
C27_FallbackNeedsToken ==
    (pc \in After("entities") /\ sources.entities.present) =>
        \A i \in 1..Len(entities_data.rows) :
            LET e == entities_data.rows[i]
                tokens == FirstTwoTokens(e.name)
            IN  FromFallback(e) =>
                  /\ \E k \in 1..Len(image_index) :
                        /\ image_index[k].images = e.images
                        /\ \E t \in 1..Len(tokens) : Contains(image_index[k].key, tokens[t])
                  /\ \E t \in 1..Len(tokens) : tokens[t] \notin ShortStrings

\* What holds instead: the images of the fallback are those of a key that
\* contains every token longer than two characters among the first two.
FallbackKeyHasLongTokens ==
    (pc \in After("entities") /\ sources.entities.present) =>
        \A i \in 1..Len(entities_data.rows) :
            LET e == entities_data.rows[i]
            IN  FromFallback(e) =>
                  \E k \in 1..Len(image_index) :
                      /\ image_index[k].images = e.images
                      /\ \A part \in LongTokens(Title(e.name)) :
                            Contains(image_index[k].key, part)

\* The file names that have a row in the results CSV.
Persisted(csv) == {csv[k] : k \in 1..Len(csv)}

\* The state never names a file without a row, and a save keeps the rows
\* saved earlier.
C28_Saved ==
    /\ Recorded(state_file') \subseteq Persisted(results_csv')
    /\ Persisted(results_csv) \subseteq Persisted(results_csv')

\* The run ends: every file analysed with success, recorded or still in the
\* batch, is in the saved state and has a row.
C28_RunEnd ==
    (apc # "idle" /\ apc' = "idle") =>
        \A f \in processed_files \cup Persisted(current_batch) :
            f \in Recorded(state_file') /\ f \in Persisted(results_csv')

\* C28 as stated: at every step of the analysis script every file named in
\* the saved state has a row in the results CSV and no row saved earlier is
\* removed, and when the run ends or is interrupted every file analysed
\* with success is in both.
C28_StateWithinResults == [][C28_Saved /\ C28_RunEnd]_vars

\* What holds instead: the state is within the results at every step, and
\* at the end of the run every file of processed_files is in both.
StateWithinResults ==
    [][/\ C28_Saved
       /\ (apc # "idle" /\ apc' = "idle") =>
             \A f \in processed_files :
                 f \in Recorded(state_file') /\ f \in Persisted(results_csv')]_vars

\* The nodes made for flight passengers, and the co-passenger links.
PassengerStubs ==
    {network_data.nodes[i].id : i \in {j \in 1..Len(network_data.nodes) :
        Get(network_data.nodes[j], "group", "") = "Flight Passenger"}}

LinkedByFlight ==
    {CoLinks[i].source : i \in 1..Len(CoLinks)} \cup {CoLinks[i].target : i \in 1..Len(CoLinks)}

\* C29 as stated: every "Flight Passenger" stub node of the graph is an
\* endpoint of a co-passenger link of the graph.
C29_StubsAreLinked ==
    pc \in After("network") => PassengerStubs \subseteq LinkedByFlight

\* What holds instead: the endpoints of the co-passenger links are nodes.
LinkedAreNodes ==
    pc \in After("network") =>
        LinkedByFlight \subseteq {network_data.nodes[i].id : i \in 1..Len(network_data.nodes)}

\* The record of the supplementary list is among those merge_persons returns:
\* all of them when the primary list is empty, otherwise those whose name
\* in lower case is the name of no primary record.
ReturnedAsIs(p) ==
    \/ ~Truthy(entities_data)
    \/ Lower(p.name) \notin LowerNamesOf(entities_data.rows)

\* The record with its connections raised to the count of its name.
Raised(p) ==
    IF CountOf(connection_counts, p.name) > Get(p, "connections", 0)
    THEN [p EXCEPT !.connections = CountOf(connection_counts, p.name)]
    ELSE p

\* The primary list is as process_entities returned it.
PrimaryUnchanged == entities_data = process_entities(sources.entities, image_index)

\* C30 as stated: after merge_persons returned, the records of both input
\* lists have the field values they had before the call.
C30_InputsUnchanged ==
    pc \in After("merge") => PrimaryUnchanged /\ kaggle_data = kaggle_before

\* C30, amended: after merge_persons returned, the records of the primary
\* list have the field values they had before the call; the records of the
\* supplementary list have them too, except that connections of every
\* record that is returned is raised to the count of its name; and these
\* records, as they are after the call, are entries of the returned list.
C30_SupplementaryUpdatedInPlace ==
    pc \in After("merge") =>
        /\ PrimaryUnchanged
        /\ kaggle_data.present = kaggle_before.present
        /\ Len(kaggle_data.rows) = Len(kaggle_before.rows)
        /\ \A i \in 1..Len(kaggle_before.rows) :
              LET before == kaggle_before.rows[i]
                  after == kaggle_data.rows[i]
              IN  IF Truthy(kaggle_before) /\ ReturnedAsIs(before)
                  THEN /\ after = Raised(before)
                       /\ \E j \in 1..Len(persons_data) : persons_data[j] = after
                  ELSE after = before

\* merge_persons returned with a supplementary record whose connections it
\* raised, next to a primary list.
C30_Witness ==
    /\ pc \in After("merge")
    /\ Truthy(entities_data)
    /\ \E i \in 1..Len(kaggle_before.rows) :
          kaggle_data.rows[i].connections > kaggle_before.rows[i].connections

===========================================================================
